---- MODULE Spec2Model ----
(***************************************************************************)
(* Event-impact correlation engine of Data_Detective                       *)
(* (2.SCRIPTS/procesamiento/correlacion_eventos.py).                       *)
(*                                                                         *)
(* Time is counted in ticks: TicksPerDay ticks make one calendar day, and  *)
(* tick 0 is 2026-02-01T00:00 (a Sunday).  A pandas Timestamp is a tick    *)
(* count, a calendar date is a day number (tick \div TicksPerDay).         *)
(* A Python float is a rational [nan, num, den] with den > 0.              *)
(***************************************************************************)
EXTENDS Integers, Sequences, FiniteSets, TLC

\* ---------------------------------------------------------------- bounds
MaxRecords == 2
MaxReadings == 4
TicksPerDay == 2

\* ------------------------------------------------------ program constants
PRECIPITACION_UMBRAL_MM == 5

\* ------------------------------------------------------------- the state
VARIABLES
    pc,                 \* position of the run
    eventos_raw,        \* the raw records handed to parse_and_deduplicate_events
    i_raw,              \* position of the first loop (for evento in eventos_raw)
    parsed,             \* list of normalized events before deduplication
    parsed_from,        \* raw position each element of parsed was appended from
    skipped_no_date,
    skipped_malformed,
    seen_ids,
    deduped,
    i_parsed,           \* position of the second loop (for ev in parsed)
    duplicados,
    raised,             \* an exception left the function for its caller
    contam_diaria,      \* daily pollution: (day, variable) -> valor_medio, n_registros
    trafico_diario,     \* daily traffic: day -> n_incidencias
    meteo_diaria,       \* daily weather: day -> precip_media, temp_media
    df_contam,          \* load_data: the pollution readings, or None
    df_trafico,         \* load_data: the traffic incidents, or None
    df_meteo,           \* load_data: the weather readings, or None
    eventos_list,       \* load_data: the list of raw events, or None
    all_event_dates,    \* compute_event_impact: days covered by some event
    i_ev,               \* position of the loop over the events
    results,            \* rows appended so far
    eventos_procesados,
    eventos_saltados,
    event_dates,        \* locals of the last pass of the loop over the events
    mask_bl_meteo,
    mask_bl_traf,
    mask_bl,            \* variable -> baseline days of that variable's series
    media_evento_val,   \* variable -> mean over the event window
    media_baseline_val, \* variable -> mean over the baseline
    media_traf_evento,
    media_traf_baseline

\* pipeline_etl.py: the run of main()
VARIABLES
    etl_pc,             \* position of pipeline_etl.main
    etl_results,        \* results: what run_module returned for each module so far
    etl_main_calls,     \* the modules whose main() has been called, in order
    etl_validation,     \* what validate_outputs returned, or None
    etl_summary,        \* the figures print_summary has logged, or None
    etl_exit            \* exit status of the process, None while it runs

\* streaming_master.py: one call of run_module
VARIABLES
    sm_pc,              \* position of run_module
    sm_module_info,     \* its argument
    sm_result,          \* the dictionary "result"
    sm_attempt,         \* the loop variable "attempt"
    sm_calls,           \* what each call of module.main() made so far came to
    sm_waits            \* the delays given to time.sleep so far

normVars == <<eventos_raw, i_raw, parsed, parsed_from, skipped_no_date,
              skipped_malformed, seen_ids, deduped, i_parsed, duplicados>>
loadVars == <<df_contam, df_trafico, df_meteo, eventos_list>>
dailyVars == <<contam_diaria, trafico_diario, meteo_diaria>>
etlVars == <<etl_pc, etl_results, etl_main_calls, etl_validation, etl_summary, etl_exit>>
smVars == <<sm_pc, sm_module_info, sm_result, sm_attempt, sm_calls, sm_waits>>
dataVars == <<dailyVars, loadVars, etlVars, smVars>>
impactVars == <<all_event_dates, i_ev, results, eventos_procesados, eventos_saltados,
                event_dates, mask_bl_meteo, mask_bl_traf, mask_bl,
                media_evento_val, media_baseline_val,
                media_traf_evento, media_traf_baseline>>
vars == <<pc, raised, normVars, dataVars, impactVars>>

\* --------------------------------------------------------------- calendar
\* Timestamp.date(): the calendar day of a timestamp.
DateOf(ts) == ts \div TicksPerDay

\* Day number of a (month, day-of-month) of 2026; February 2026 has 28 days.
DayNumber(mon, dom) == IF mon = 2 THEN dom - 1 ELSE 28 + dom - 1

\* Timestamp.month of a day number.
MonthOf(d) == IF d < 28 THEN 2 ELSE 3

\* Timestamp.dayofweek of a day number (0 = Monday); day 0 is a Sunday.
DayOfWeek(d) == (d + 6) % 7

\* ----------------------------------------------------------------- floats
\* np.nan
NaN == [nan |-> TRUE, num |-> 0, den |-> 1]

\* The float of an integer.
F(n) == [nan |-> FALSE, num |-> n, den |-> 1]

\* Two floats of the same value are the same float: a fraction is kept in
\* lowest terms.
RECURSIVE Gcd(_, _)
Gcd(a, b) == IF b = 0 THEN a ELSE Gcd(b, a % b)

Frac(num, den) ==
    LET g == Gcd(IF num < 0 THEN -num ELSE num, den)
    IN  [nan |-> FALSE, num |-> num \div g, den |-> den \div g]

\* x + y of two floats that are not NaN.
Plus(x, y) == Frac(x.num * y.den + y.num * x.den, x.den * y.den)

\* x <= n and x > 0 of a float that is not NaN.
LeqInt(x, n) == x.num <= n * x.den
Positive(x) == x.num > 0

\* Series.mean(): the mean of the values of f over the days of S that are not
\* NaN; NaN when there is none.
RECURSIVE SumOf(_, _)
SumOf(S, f) ==
    IF S = {} THEN F(0)
    ELSE LET d == CHOOSE x \in S : TRUE
         IN  IF f[d].nan THEN SumOf(S \ {d}, f) ELSE Plus(f[d], SumOf(S \ {d}, f))

Mean(S, f) ==
    LET valid == {d \in S : ~f[d].nan}
        total == SumOf(valid, f)
    IN  IF valid = {} THEN NaN
        ELSE Frac(total.num, total.den * Cardinality(valid))

\* 10 ** nd
RECURSIVE Pow10(_)
Pow10(nd) == IF nd = 0 THEN 1 ELSE 10 * Pow10(nd - 1)

\* The digits after the nd-th cut off.
RoundDown(x, nd) ==
    IF x.nan THEN NaN
    ELSE Frac((x.num * Pow10(nd)) \div x.den, Pow10(nd))

\* round(x, nd) if not np.isnan(x) else np.nan; a tie goes to the even digit.
Round(x, nd) ==
    IF x.nan THEN NaN
    ELSE LET scaled == x.num * Pow10(nd)
             q == scaled \div x.den
             r == scaled % x.den
             up == (2 * r > x.den) \/ (2 * r = x.den /\ q % 2 = 1)
         IN  Frac(IF up THEN q + 1 ELSE q, Pow10(nd))

\* ------------------------------------------------------------- data frames
\* A daily table that is None.
NoneDF == [none |-> TRUE, rows |-> <<>>]

\* A daily table with the given rows (a function of the day, or of the
\* (day, variable) pair); it is empty when rows has no element.
DF(rows) == [none |-> FALSE, rows |-> rows]

\* df is not None and not df.empty
HasRows(df) == ~df.none /\ DOMAIN df.rows # {}

\* ------------------------------------------------------------ raw records
\* A key that the mapping does not hold.
ABSENT == "<absent>"

\* JSON null under a key the mapping holds: None in Python.
NULL == "<null>"

\* isinstance(value, str): False for None; indexing None raises TypeError.
IsText(value) == value # NULL

\* dict.get(key, default)
Get(value, default) == IF value = ABSENT THEN default ELSE value

\* The value found under a date key.  kind: "absent" (no such key), "null"
\* (JSON null), "number" (a JSON number), "empty" (""), "blank" ("  "),
\* "garbage" (text that is no date) or "date" (text of a date, in format fmt:
\* "iso" 2026-02-14, "dmy" 14/02/2026, "isoT" 2026-02-14T12:00:00, "isoTZ"
\* 2026-02-14T12:00:00+12:00; slot is the time of day and off the UTC offset,
\* both in ticks).
RawDate(kind, fmt, mon, dom, slot, off) ==
    [kind |-> kind, fmt |-> fmt, mon |-> mon, dom |-> dom, slot |-> slot, off |-> off]

NoDate(kind) == RawDate(kind, "-", 0, 0, 0, 0)
Iso(mon, dom) == RawDate("date", "iso", mon, dom, 0, 0)
Dmy(dom, mon) == RawDate("date", "dmy", mon, dom, 0, 0)
IsoT(mon, dom, slot) == RawDate("date", "isoT", mon, dom, slot, 0)
IsoTZ(mon, dom, slot, off) == RawDate("date", "isoTZ", mon, dom, slot, off)

\* None, as returned by _parse_event_date.
None == -1

\* pd.to_datetime(date_str, dayfirst=True) followed by the removal of the time
\* zone: the timestamp in ticks, the time of day kept, an aware value moved to UTC.
ToDatetime(rd) ==
    LET naive == DayNumber(rd.mon, rd.dom) * TicksPerDay + rd.slot
    IN  IF rd.fmt = "isoTZ" THEN naive - rd.off ELSE naive

\* _parse_event_date, without the isinstance test: a number reaches
\* pd.to_datetime, which reads it as an offset from the epoch.
parse_event_date_untyped(rd) ==
    IF rd.kind \in {"absent", "null", "empty", "blank", "garbage"} THEN None
    ELSE IF rd.kind = "number" THEN 0
    ELSE ToDatetime(rd)

\* _parse_event_date: None for a value that is falsy or no text, for text that
\* is blank once stripped and for text pd.to_datetime rejects.
parse_event_date(rd) ==
    IF rd.kind \in {"absent", "null", "number", "empty"} THEN None
    ELSE IF rd.kind = "blank" THEN None
    ELSE IF rd.kind = "garbage" THEN None
    ELSE ToDatetime(rd)

\* _generate_event_id hashing both dates of the record.
generate_event_id_both_dates(evento) ==
    <<Get(evento.nombre, Get(evento.rival, "desconocido")),
      <<evento.fecha_inicio, evento.fecha_fin>>,
      Get(evento.fuente, "")>>

\* The text hashed by _generate_event_id: md5 of "nombre|fecha_inicio|fuente"
\* cut to 12 hex digits, kept here as the three hashed texts.
generate_event_id(evento) ==
    <<Get(evento.nombre, Get(evento.rival, "desconocido")),
      IF evento.fecha_inicio.kind = "absent" THEN NoDate("empty") ELSE evento.fecha_inicio,
      Get(evento.fuente, "")>>

\* The exchange of the two dates left out.
NeverInverted(fecha_inicio, fecha_fin) == FALSE

\* if fecha_fin < fecha_inicio: the dates are exchanged.
Inverted(fecha_inicio, fecha_fin) == fecha_fin < fecha_inicio

\* An exception of the loop body with no except clause around it.
Uncaught == "raise"

\* except Exception: the record is counted as malformed and the loop goes on.
ExceptException == "malformed"

\* One pass of the body of the first loop: what becomes of one raw record.
\* outcome "ok" (appended), "no_date" (skipped, counted), "malformed" (an
\* exception caught by the except clause) or "raise" (an exception not caught).
NormalizeRecord(evento) ==
    IF ~evento.mapping
    THEN [outcome |-> ExceptException, ev |-> <<>>]
    ELSE
      LET nombre == Get(evento.nombre, Get(evento.rival, "Evento desconocido"))
          fecha_inicio == parse_event_date(evento.fecha_inicio)
          fin0 == parse_event_date(evento.fecha_fin)
          fecha_fin == IF fin0 = None THEN fecha_inicio ELSE fin0
          swap == Inverted(fecha_inicio, fecha_fin)
      IN  IF fecha_inicio = None
          THEN [outcome |-> "no_date", ev |-> <<>>]
          ELSE [outcome |-> "ok",
                ev |-> [evento_id |-> generate_event_id(evento),
                        nombre |-> nombre,
                        tipo_evento |-> Get(evento.tipo, "desconocido"),
                        impacto_esperado |-> Get(evento.impacto_esperado, "desconocido"),
                        fuente_evento |-> Get(evento.fuente, "desconocida"),
                        fecha_inicio |-> IF swap THEN fecha_fin ELSE fecha_inicio,
                        fecha_fin |-> IF swap THEN fecha_inicio ELSE fecha_fin]]

\* ------------------------------------------------------------ the actions
\* for evento in eventos_raw: try ... except
ParseRecord ==
    /\ pc = "parse"
    /\ i_raw <= Len(eventos_raw)
    /\ LET r == NormalizeRecord(eventos_raw[i_raw])
       IN  /\ parsed' = IF r.outcome = "ok" THEN Append(parsed, r.ev) ELSE parsed
           /\ parsed_from' = IF r.outcome = "ok" THEN Append(parsed_from, i_raw)
                             ELSE parsed_from
           /\ skipped_no_date' = skipped_no_date + (IF r.outcome = "no_date" THEN 1 ELSE 0)
           /\ skipped_malformed' = skipped_malformed + (IF r.outcome = "malformed" THEN 1 ELSE 0)
           /\ raised' = (r.outcome = "raise")
           /\ pc' = IF r.outcome = "raise" THEN "raised" ELSE "parse"
           /\ i_raw' = i_raw + 1
    /\ UNCHANGED <<eventos_raw, seen_ids, deduped, i_parsed, duplicados,
                   dataVars, impactVars>>

\* The membership test of the second loop left out.
KeepAll(ev, seen) == TRUE

\* if ev["evento_id"] not in seen_ids
KeepFirst(ev, seen) == ev.evento_id \notin seen

\* for ev in parsed: keep the first event of each evento_id
DedupRecord ==
    /\ pc = "parse"
    /\ i_raw > Len(eventos_raw)
    /\ i_parsed <= Len(parsed)
    /\ LET ev == parsed[i_parsed]
       IN  /\ seen_ids' = seen_ids \cup {ev.evento_id}
           /\ deduped' = IF KeepFirst(ev, seen_ids) THEN Append(deduped, ev)
                         ELSE deduped
    /\ i_parsed' = i_parsed + 1
    /\ UNCHANGED <<pc, raised, eventos_raw, i_raw, parsed, parsed_from,
                   skipped_no_date, skipped_malformed, duplicados, dataVars, impactVars>>

\* The duplicates counted against the raw list.
ReturnRawDifference ==
    /\ pc = "parse"
    /\ i_raw > Len(eventos_raw)
    /\ i_parsed > Len(parsed)
    /\ duplicados' = Len(eventos_raw) - Len(deduped)
    /\ pc' = "parsed"
    /\ UNCHANGED <<raised, eventos_raw, i_raw, parsed, parsed_from, skipped_no_date,
                   skipped_malformed, seen_ids, deduped, i_parsed, dataVars, impactVars>>

\* duplicados = len(parsed) - len(deduped); return deduped
ReturnDeduped ==
    /\ pc = "parse"
    /\ i_raw > Len(eventos_raw)
    /\ i_parsed > Len(parsed)
    /\ duplicados' = Len(parsed) - Len(deduped)
    /\ pc' = "parsed"
    /\ UNCHANGED <<raised, eventos_raw, i_raw, parsed, parsed_from, skipped_no_date,
                   skipped_malformed, seen_ids, deduped, i_parsed, dataVars, impactVars>>

\* ------------------------------------------------- inputs of the normalizer
\* A raw record that is a mapping.
Rec(nombre, rival, fi, ff, fuente, tipo, impacto) ==
    [mapping |-> TRUE, nombre |-> nombre, rival |-> rival, fecha_inicio |-> fi,
     fecha_fin |-> ff, fuente |-> fuente, tipo |-> tipo, impacto_esperado |-> impacto]

\* A raw record that is no mapping (a string, a list, a number).
NotAMapping ==
    [mapping |-> FALSE, nombre |-> ABSENT, rival |-> ABSENT,
     fecha_inicio |-> NoDate("absent"), fecha_fin |-> NoDate("absent"),
     fuente |-> ABSENT, tipo |-> ABSENT, impacto_esperado |-> ABSENT]

NormRecords ==
    { Rec(n, ABSENT, fi, ff, f, "puntual", "alto") :
        n \in {"Fallas", "Mascleta"},
        fi \in {Iso(2, 14), IsoT(2, 14, 1)},
        ff \in {NoDate("absent"), Iso(2, 7), Iso(2, 15)},
        f \in {"visitvalencia", "ayuntamiento"} }
    \cup
    { Rec("Fallas", ABSENT, fi, NoDate("absent"), "visitvalencia", "puntual", "alto") :
        fi \in {NoDate("absent"), NoDate("null"), NoDate("number"), NoDate("empty"),
                NoDate("blank"), NoDate("garbage"), Dmy(14, 2), IsoTZ(2, 14, 1, 1)} }
    \cup
    { Rec("Fallas", ABSENT, Iso(2, 14), ff, "visitvalencia", ABSENT, "bajo") :
        ff \in {NoDate("garbage"), NoDate("null"), IsoT(2, 14, 1)} }
    \cup
    { Rec(ABSENT, rv, Iso(2, 14), NoDate("absent"), ABSENT, "puntual", ABSENT) :
        rv \in {ABSENT, "Fallas"} }
    \cup
    { NotAMapping }

RawLists(S) == UNION { [1..n -> S] : n \in 0..MaxRecords }

\* The locals of parse_and_deduplicate_events before its first loop.
NormLocals ==
    /\ i_raw = 1
    /\ parsed = <<>>
    /\ parsed_from = <<>>
    /\ skipped_no_date = 0
    /\ skipped_malformed = 0
    /\ seen_ids = {}
    /\ deduped = <<>>
    /\ i_parsed = 1
    /\ duplicados = 0
    /\ raised = FALSE

\* The state at the entry of parse_and_deduplicate_events.
NormStart ==
    /\ pc = "parse"
    /\ NormLocals

\* pipeline_etl.main has not been entered.
EtlIdle ==
    /\ etl_pc = "idle"
    /\ etl_results = <<>>
    /\ etl_main_calls = <<>>
    /\ etl_validation = [none |-> TRUE]
    /\ etl_summary = [none |-> TRUE]
    /\ etl_exit = None

\* streaming_master.run_module has not been entered.
StreamIdle ==
    /\ sm_pc = "idle"
    /\ sm_module_info = [none |-> TRUE]
    /\ sm_result = [none |-> TRUE]
    /\ sm_attempt = 0
    /\ sm_calls = <<>>
    /\ sm_waits = <<>>

\* The run is one of correlacion_eventos.py alone.
NoOrchestrator == EtlIdle /\ StreamIdle

\* Nothing has been read by load_data: the functions are entered directly.
NotLoaded ==
    /\ df_contam = NoneDF
    /\ df_trafico = NoneDF
    /\ df_meteo = NoneDF
    /\ eventos_list = NoneDF

\* The state of compute_event_impact before it is entered.
ImpactStart ==
    /\ all_event_dates = {}
    /\ i_ev = 1
    /\ results = <<>>
    /\ eventos_procesados = 0
    /\ eventos_saltados = 0
    /\ event_dates = {}
    /\ mask_bl_meteo = {}
    /\ mask_bl_traf = {}
    /\ mask_bl = <<>>
    /\ media_evento_val = <<>>
    /\ media_baseline_val = <<>>
    /\ media_traf_evento = NaN
    /\ media_traf_baseline = NaN

\* Longer lists of a few records: two events, a record without a date that
\* parses and a record that is no mapping.
MixedRecords ==
    { Rec(n, ABSENT, Iso(2, 14), NoDate("absent"), "visitvalencia", "puntual", "alto") :
        n \in {"Fallas", "Mascleta"} }
    \cup { Rec("Fallas", ABSENT, NoDate("garbage"), NoDate("absent"), "visitvalencia",
               "puntual", "alto"),
           NotAMapping }

MixedLists == [1..(MaxRecords + 1) -> MixedRecords]

InitNorm ==
    /\ eventos_raw \in RawLists(NormRecords) \cup MixedLists
    /\ contam_diaria = NoneDF
    /\ trafico_diario = NoneDF
    /\ meteo_diaria = NoneDF
    /\ NotLoaded
    /\ NoOrchestrator
    /\ NormStart
    /\ ImpactStart

NextNorm == ParseRecord \/ DedupRecord \/ ReturnDeduped

SpecNorm == InitNorm /\ [][NextNorm]_vars

\* ------------------------------------------------------ baseline selection
\* pd.date_range(start, end, freq="D"): start, start + 1 day, ... up to end.
DateRange(start, end) ==
    {start + k * TicksPerDay : k \in 0..((end - start) \div TicksPerDay)}

\* The calendar days of the timestamps of a range: set(d.date() for d in rango).
DatesOf(rango) == {DateOf(t) : t \in rango}

\* The days of the range of the first event only.
get_first_event_dates(events) ==
    DatesOf(DateRange(events[1].fecha_inicio, events[1].fecha_fin))

\* _get_all_event_dates: the days of the ranges of all the events.
get_all_event_dates(events) ==
    UNION {DatesOf(DateRange(events[k].fecha_inicio, events[k].fecha_fin)) :
             k \in 1..Len(events)}

\* The precipitation of the day never looked up.
PrecipNotLookedUp(d, meteo) == NaN

\* fechas_serie.dt.date.map(meteo_lookup): the precipitation of the day, NaN
\* for a day the weather table has no row for.
PrecipOf(d, meteo) ==
    IF d \in DOMAIN meteo.rows THEN meteo.rows[d].precip_media ELSE NaN

\* The rain criterion with a strict comparison.
NoSignificantRainStrict(precip) ==
    precip.nan \/ precip.num < PRECIPITACION_UMBRAL_MM * precip.den

\* (precip_values.isna()) | (precip_values <= PRECIPITACION_UMBRAL_MM)
NoSignificantRain(precip) ==
    precip.nan \/ LeqInt(precip, PRECIPITACION_UMBRAL_MM)

\* The month criterion left out.
AnyMonth(d, event_months) == TRUE

\* fechas_serie.dt.month.isin(event_months)
SameMonth(d, event_months) == MonthOf(d) \in event_months

\* _build_baseline_mask: the days of fechas_serie the mask is True for.
build_baseline_mask(fechas_serie, evento, all_dates, meteo) ==
    LET event_range == DateRange(evento.fecha_inicio, evento.fecha_fin)
        event_months == {MonthOf(DateOf(t)) : t \in event_range}
        event_weekdays == {DayOfWeek(DateOf(t)) : t \in event_range}
        mask_month == {d \in fechas_serie : SameMonth(d, event_months)}
        mask_weekday == {d \in fechas_serie : DayOfWeek(d) \in event_weekdays}
        mask_no_event == {d \in fechas_serie : d \notin all_dates}
        mask_no_rain ==
            IF HasRows(meteo)
            THEN {d \in fechas_serie : NoSignificantRain(PrecipOf(d, meteo))}
            ELSE fechas_serie
    IN  mask_month \cap mask_weekday \cap mask_no_event \cap mask_no_rain

\* ------------------------------------------------------ impact computation
\* The pollutants, in sorted order.
VariableOrder == <<"NO2", "PM10">>

\* Every pollutant, whatever the table holds.
variables_always(contam) == VariableOrder

\* sorted(contam_diaria["variable"].unique()), [] for a missing or empty table.
variables_of(contam) ==
    IF HasRows(contam)
    THEN SelectSeq(VariableOrder, LAMBDA v : \E p \in DOMAIN contam.rows : p[2] = v)
    ELSE <<>>

\* df_var["fecha"]: the days of the rows of one pollutant.
DaysOfVariable(contam, v) == {p[1] : p \in {q \in DOMAIN contam.rows : q[2] = v}}

\* The percentage with 0 in place of the missing value for a baseline <= 0.
ImpactPctZero(media_evento, media_baseline) ==
    IF ~media_evento.nan /\ ~media_baseline.nan
    THEN IF Positive(media_baseline)
         THEN Frac((media_evento.num * media_baseline.den
                    - media_baseline.num * media_evento.den) * 100,
                   media_evento.den * media_baseline.num)
         ELSE F(0)
    ELSE NaN

\* (media_evento - media_baseline) / media_baseline * 100 when both means are
\* numbers and the baseline is > 0, np.nan otherwise.
ImpactPct(media_evento, media_baseline) ==
    IF ~media_evento.nan /\ ~media_baseline.nan /\ Positive(media_baseline)
    THEN Frac((media_evento.num * media_baseline.den
               - media_baseline.num * media_evento.den) * 100,
              media_evento.den * media_baseline.num)
    ELSE NaN

\* The loop entered with the set of event days still empty.
StartWithoutEventDays ==
    /\ pc = "parsed"
    /\ all_event_dates' = {}
    /\ pc' = IF deduped = <<>> THEN "done" ELSE "impact"
    /\ UNCHANGED <<raised, normVars, dataVars, i_ev, results, eventos_procesados,
                   eventos_saltados, event_dates, mask_bl_meteo, mask_bl_traf, mask_bl,
                   media_evento_val, media_baseline_val,
                   media_traf_evento, media_traf_baseline>>

\* if not events: return pd.DataFrame(); else the days of all events are
\* computed once, before the loop.
StartImpact ==
    /\ pc = "parsed"
    /\ all_event_dates' = IF deduped = <<>> THEN {} ELSE get_all_event_dates(deduped)
    /\ pc' = IF deduped = <<>> THEN "done" ELSE "impact"
    /\ UNCHANGED <<raised, normVars, dataVars, i_ev, results, eventos_procesados,
                   eventos_saltados, event_dates, mask_bl_meteo, mask_bl_traf, mask_bl,
                   media_evento_val, media_baseline_val,
                   media_traf_evento, media_traf_baseline>>

\* The total in place of the mean.
sum_incidencias(trafico, days) ==
    IF days = {} THEN NaN
    ELSE SumOf(days, [d \in DOMAIN trafico.rows |-> F(trafico.rows[d].n_incidencias)])

\* traf["n_incidencias"].mean() if not traf.empty else np.nan, over the rows
\* of the given days.
mean_incidencias(trafico, days) ==
    Mean(days, [d \in DOMAIN trafico.rows |-> F(trafico.rows[d].n_incidencias)])

\* A pollutant left out when the event's days have no row of it.
SkipWithoutEventData(df_var, datos_ev) == datos_ev = {}

\* if df_var.empty: continue
SkipVariable(df_var, datos_ev) == df_var = {}

\* The rows of an event with the else branch left out: no row without pollutants.
RowsWithoutFallback(variables_contam, filas, sin_datos) == filas

\* if variables_contam: one row for each pollutant; else: the single row
\* "sin_datos" that carries the traffic and weather figures only.
RowsOfEvent(variables_contam, filas, sin_datos) ==
    IF variables_contam # <<>> THEN filas ELSE <<sin_datos>>

\* A pass that raises with no except clause around it: the exception leaves
\* the function, which returns no table.
RaiseInLoop ==
    /\ pc' = "raised"
    /\ raised' = TRUE
    /\ UNCHANGED <<normVars, dataVars, impactVars>>

\* The body of one pass of for i, evento in enumerate(events), for an evento
\* whose nombre is text: the rows it appends, whether it counts the event as
\* processed, and the locals it leaves.
EventPass(evento, all_dates, contam, trafico, meteo) ==
    LET start == evento.fecha_inicio
        end == evento.fecha_fin
        ev_dates == DatesOf(DateRange(start, end))
        n_dias_evento == Cardinality(ev_dates)
        \* weather of the event and of its baseline
        meteo_on == HasRows(meteo)
        meteo_days == IF meteo_on THEN DOMAIN meteo.rows ELSE {}
        temp == [d \in meteo_days |-> meteo.rows[d].temp_media]
        precip == [d \in meteo_days |-> meteo.rows[d].precip_media]
        meteo_ev == meteo_days \cap ev_dates
        bl_meteo == IF meteo_on
                    THEN build_baseline_mask(meteo_days, evento, all_dates,
                                             meteo)
                    ELSE {}
        media_temp_evento == Mean(meteo_ev, temp)
        media_precip_evento == Mean(meteo_ev, precip)
        media_temp_baseline == Mean(bl_meteo, temp)
        media_precip_baseline == Mean(bl_meteo, precip)
        \* traffic
        traf_on == HasRows(trafico)
        traf_days == IF traf_on THEN DOMAIN trafico.rows ELSE {}
        bl_traf == IF traf_on
                   THEN build_baseline_mask(traf_days, evento, all_dates,
                                            meteo)
                   ELSE {}
        traf_ev_mean == mean_incidencias(trafico, traf_days \cap ev_dates)
        traf_bl_mean == mean_incidencias(trafico, bl_traf)
        impacto_trafico_pct == IF traf_on THEN ImpactPct(traf_ev_mean, traf_bl_mean)
                               ELSE NaN
        \* pollution, one row for each variable
        variables_contam == variables_of(contam)
        vset == {variables_contam[k] : k \in 1..Len(variables_contam)}
        valor(v) == [d \in DaysOfVariable(contam, v) |->
                        contam.rows[<<d, v>>].valor_medio]
        datos_ev(v) == DaysOfVariable(contam, v) \cap ev_dates
        datos_bl(v) == build_baseline_mask(DaysOfVariable(contam, v), evento,
                                           all_dates, meteo)
        ev_val == [v \in vset |-> Mean(datos_ev(v), valor(v))]
        bl_val == [v \in vset |-> Mean(datos_bl(v), valor(v))]
        Row(variable, media_evento, media_baseline, impacto_pct, n_ev, n_bl) ==
            [evento_id |-> evento.evento_id,
             nombre_evento |-> evento.nombre,
             tipo_evento |-> evento.tipo_evento,
             impacto_esperado |-> evento.impacto_esperado,
             fecha_inicio |-> DateOf(start),
             fecha_fin |-> DateOf(end),
             variable |-> variable,
             media_evento |-> Round(media_evento, 2),
             media_baseline |-> Round(media_baseline, 2),
             impacto_pct |-> Round(impacto_pct, 2),
             n_dias_evento |-> n_ev,
             n_dias_baseline |-> n_bl,
             media_temp_evento |-> Round(media_temp_evento, 1),
             media_temp_baseline |-> Round(media_temp_baseline, 1),
             media_precip_evento |-> Round(media_precip_evento, 2),
             media_precip_baseline |-> Round(media_precip_baseline, 2),
             impacto_trafico_pct |-> Round(impacto_trafico_pct, 2)]
        kept == SelectSeq(variables_contam,
                         LAMBDA v : ~SkipVariable(DaysOfVariable(contam, v),
                                                  datos_ev(v)))
        filas == [k \in 1..Len(kept) |->
                    LET v == kept[k]
                    IN  Row(v, ev_val[v], bl_val[v], ImpactPct(ev_val[v], bl_val[v]),
                            Cardinality(datos_ev(v)), Cardinality(datos_bl(v)))]
        sin_datos == Row("sin_datos", NaN, NaN, NaN, n_dias_evento, 0)
        con_datos == IF variables_contam # <<>> THEN kept # <<>>
                     ELSE ~impacto_trafico_pct.nan
    IN  [rows |-> RowsOfEvent(variables_contam, filas, sin_datos),
         con_datos |-> con_datos,
         event_dates |-> ev_dates,
         mask_bl_meteo |-> bl_meteo,
         mask_bl_traf |-> bl_traf,
         mask_bl |-> [v \in vset |-> datos_bl(v)],
         media_evento_val |-> ev_val,
         media_baseline_val |-> bl_val,
         media_traf_evento |-> IF traf_on THEN traf_ev_mean ELSE NaN,
         media_traf_baseline |-> IF traf_on THEN traf_bl_mean ELSE NaN]

\* One pass of for i, evento in enumerate(events).  evento["nombre"][:50]
\* raises TypeError for a nombre that is None.
ComputeEvent ==
    /\ pc = "impact"
    /\ i_ev <= Len(deduped)
    /\ IF ~IsText(deduped[i_ev].nombre) THEN RaiseInLoop ELSE
        /\ \E pass \in {EventPass(deduped[i_ev], all_event_dates, contam_diaria,
                                   trafico_diario, meteo_diaria)} :
               /\ results' = results \o pass.rows
               /\ eventos_procesados' = eventos_procesados + (IF pass.con_datos THEN 1 ELSE 0)
               /\ eventos_saltados' = eventos_saltados + (IF pass.con_datos THEN 0 ELSE 1)
               /\ event_dates' = pass.event_dates
               /\ mask_bl_meteo' = pass.mask_bl_meteo
               /\ mask_bl_traf' = pass.mask_bl_traf
               /\ mask_bl' = pass.mask_bl
               /\ media_evento_val' = pass.media_evento_val
               /\ media_baseline_val' = pass.media_baseline_val
               /\ media_traf_evento' = pass.media_traf_evento
               /\ media_traf_baseline' = pass.media_traf_baseline
        /\ i_ev' = i_ev + 1
        /\ UNCHANGED <<pc, raised, normVars, dataVars, all_event_dates>>

\* The loop is over: the rows are returned as a table.
FinishImpact ==
    /\ pc = "impact"
    /\ i_ev > Len(deduped)
    /\ pc' = "done"
    /\ UNCHANGED <<raised, normVars, dataVars, impactVars>>

\* ------------------------------------------- inputs of the impact computation
\* Raw records of events that differ in their dates: a Saturday of March; a
\* Saturday noon to Sunday midnight; a Sunday written day first; a week-end
\* given end first; a week-end across two months.
EventWindows ==
    { <<Iso(3, 7), NoDate("absent"), "alto">>,
      <<IsoT(2, 14, 1), IsoT(2, 15, 0), "alto">>,
      <<Dmy(8, 2), NoDate("absent"), "bajo">>,
      <<Iso(2, 8), Iso(2, 7), "medio">>,
      <<Iso(2, 28), Iso(3, 1), "bajo">> }

ImpactRecords ==
    { Rec("Fallas", ABSENT, w[1], w[2], "visitvalencia", "puntual", w[3]) :
        w \in EventWindows }

\* Days the daily tables may have rows for: Saturdays and Sundays of February
\* and March 2026.
Feb7 == DayNumber(2, 7)
Feb8 == DayNumber(2, 8)
Feb14 == DayNumber(2, 14)
Feb15 == DayNumber(2, 15)
Feb21 == DayNumber(2, 21)
Mar7 == DayNumber(3, 7)
Mar14 == DayNumber(3, 14)
DataDays == {Feb7, Feb8, Feb14, Feb15, Feb21, Mar7, Mar14}

\* Rows of the daily tables.
MeteoRow(precip) == [precip_media |-> precip, temp_media |-> F(15)]
TrafRow(n) == [n_incidencias |-> n]
ContamRow(valor) == [valor_medio |-> valor, n_registros |-> IF valor.nan THEN 0 ELSE 1]

\* All the weather tables with rows for some of the days of D, of precipitation in V.
MeteoTables(D, V) ==
    UNION { { [d \in S |-> MeteoRow(val[d])] : val \in [S -> V] } : S \in SUBSET D }

\* All the traffic tables with rows for some of the days of D, of counts in V.
TrafTables(D, V) ==
    UNION { { [d \in S |-> TrafRow(val[d])] : val \in [S -> V] } : S \in SUBSET D }

\* All the pollution tables of NO2 rows for some of the days of D, of values in V,
\* with the PM10 rows of extra.
ContamTables(D, V, extra) ==
    UNION { { [p \in (S \X {"NO2"}) \cup DOMAIN extra |->
                 IF p[2] = "NO2" THEN ContamRow(val[p[1]]) ELSE extra[p]] :
              val \in [S -> V] } : S \in SUBSET D }

\* Pollution and traffic with a row for every day.
FullContam ==
    DF([p \in DataDays \X {"NO2", "PM10"} |-> ContamRow(F(10 + p[1]))])
FullTraffic == DF([d \in DataDays |-> TrafRow(1 + (d % 3))])

\* Family 1: the events and the weather vary, pollution and traffic are complete.
WeatherInputs ==
    /\ eventos_raw \in RawLists(ImpactRecords)
    /\ contam_diaria = FullContam
    /\ trafico_diario = FullTraffic
    /\ meteo_diaria \in
          {NoneDF}
          \cup {DF(t) : t \in MeteoTables({Feb14, Feb15, Feb21, Mar14}, {F(5), F(6)})}
          \cup {DF(t) : t \in MeteoTables({Feb15}, {NaN})}

\* Family 2: one event, and the values of pollution and traffic vary.
ValueInputs ==
    /\ eventos_raw \in { <<r>> : r \in {x \in ImpactRecords : x.fecha_fin.kind # "absent"
                                                           \/ x.fecha_inicio.fmt = "dmy"} }
    /\ contam_diaria \in
          {NoneDF}
          \cup {DF(t) : t \in ContamTables({Feb8, Feb15, Feb21},
                                           {NaN, F(-10), F(0), F(30)}, <<>>)}
          \cup {DF(t) : t \in ContamTables({Feb8, Feb15}, {F(0), F(30)},
                                           [p \in {<<Feb8, "PM10">>} |-> ContamRow(F(40))])}
    /\ trafico_diario \in
          {NoneDF} \cup {DF(t) : t \in TrafTables({Feb8, Feb15}, {1, 3})}
    /\ meteo_diaria \in {NoneDF, DF([d \in {Feb15} |-> MeteoRow(F(6))])}

\* A record whose nombre is JSON null, on a Saturday of March.
NullNameRecord ==
    Rec(NULL, ABSENT, Iso(3, 14), NoDate("absent"), "visitvalencia", "puntual", "alto")

\* Family 3: a record without a name among the events, and pollution values
\* near the presentation precision.
EdgeInputs ==
    /\ eventos_raw \in RawLists({NullNameRecord} \cup
                                 {x \in ImpactRecords : x.fecha_fin.kind = "absent"})
    /\ contam_diaria \in
          {NoneDF}
          \cup {DF(t) : t \in ContamTables({Feb8, Feb15},
                                           {Frac(1, 250), Frac(7, 500), Frac(2501, 250)},
                                           [p \in {<<Mar7, "PM10">>} |-> ContamRow(F(40))])}
    /\ trafico_diario \in {NoneDF, FullTraffic}
    /\ meteo_diaria \in {NoneDF, DF([d \in {Feb8, Feb15} |-> MeteoRow(F(d % 5))])}

\* Family 4: one event on Saturday 2026-03-07, series with rows on Saturdays
\* of February and March, and 8 mm of rain on 2026-02-14.
SaturdayInputs ==
    /\ eventos_raw = <<Rec("Fallas", ABSENT, Iso(3, 7), NoDate("absent"), "visitvalencia",
                           "puntual", "alto")>>
    /\ contam_diaria \in {DF(t) : t \in ContamTables({Feb7, Feb14, Mar14}, {F(20)}, <<>>)}
    /\ trafico_diario \in {NoneDF} \cup {DF(t) : t \in TrafTables({Feb7, Feb14}, {2})}
    /\ meteo_diaria \in
          { DF([d \in {Feb14} |-> MeteoRow(F(8))]),
            DF([d \in {Feb7, Feb14, Mar14} |-> MeteoRow(IF d = Feb14 THEN F(8) ELSE F(0))]) }

InitImpact ==
    /\ WeatherInputs \/ ValueInputs \/ EdgeInputs \/ SaturdayInputs
    /\ NotLoaded
    /\ NoOrchestrator
    /\ NormStart
    /\ ImpactStart

NextImpact ==
    \/ ParseRecord
    \/ DedupRecord
    \/ ReturnDeduped
    \/ StartImpact
    \/ ComputeEvent
    \/ FinishImpact

SpecImpact == InitImpact /\ [][NextImpact]_vars

\* ------------------------------------------------------ daily aggregations
\* Every reading taken, whatever its quality flag.
IsAny(r) == TRUE

\* df_contam["calidad_dato"] == "ok"
IsOk(r) == r.calidad_dato = "ok"

\* 2A: the readings flagged ok, grouped by (date, variable); valor_medio is the
\* mean and n_registros the count of the values of the group that are not NaN.
\* None for readings that are None or empty.
contam_daily(df) ==
    IF ~HasRows(df) THEN NoneDF
    ELSE LET df_ok == {i \in DOMAIN df.rows : IsOk(df.rows[i])}
             clave(i) == <<DateOf(df.rows[i].fecha_utc), df.rows[i].variable>>
             grupo(p) == {i \in df_ok : clave(i) = p}
             valor == [i \in df_ok |-> df.rows[i].valor]
         IN  DF([p \in {clave(i) : i \in df_ok} |->
                    [valor_medio |-> Mean(grupo(p), valor),
                     n_registros |-> Cardinality({i \in grupo(p) : ~valor[i].nan})]])

\* 2B: the incidents grouped by date; n_incidencias is the count of the group.
trafico_daily(df) ==
    IF ~HasRows(df) THEN NoneDF
    ELSE LET fecha_dia(i) == DateOf(df.rows[i].fecha)
             grupo(d) == {i \in DOMAIN df.rows : fecha_dia(i) = d}
         IN  DF([d \in {fecha_dia(i) : i \in DOMAIN df.rows} |->
                    [n_incidencias |-> Cardinality(grupo(d))]])

\* 2C: the weather readings grouped by date; the means of precipitacion_mm and
\* of temp_c.
meteo_daily(df) ==
    IF ~HasRows(df) THEN NoneDF
    ELSE LET fecha_dia(i) == DateOf(df.rows[i].fecha)
             grupo(d) == {i \in DOMAIN df.rows : fecha_dia(i) = d}
         IN  DF([d \in {fecha_dia(i) : i \in DOMAIN df.rows} |->
                    [precip_media |-> Mean(grupo(d), [i \in DOMAIN df.rows |->
                                                         df.rows[i].precipitacion_mm]),
                     temp_media |-> Mean(grupo(d), [i \in DOMAIN df.rows |->
                                                       df.rows[i].temp_c])]])

\* build_daily_aggregations
Aggregate ==
    /\ pc = "aggregate"
    /\ contam_diaria' = contam_daily(df_contam)
    /\ trafico_diario' = trafico_daily(df_trafico)
    /\ meteo_diaria' = meteo_daily(df_meteo)
    /\ pc' = "parse"
    /\ UNCHANGED <<raised, normVars, loadVars, etlVars, smVars, impactVars>>

\* ------------------------------------------------------------------- main
\* One of the two sources is missing.
SinAlgunaFuente(contam, trafico) == contam.none \/ trafico.none

\* if df_contam is None and df_trafico is None
SinFuentes(contam, trafico) == contam.none /\ trafico.none

\* if eventos_raw is None or len(eventos_raw) == 0
SinEventos(lista) == lista.none \/ Len(lista.rows) = 0

\* main, from the return of load_data to the call of build_daily_aggregations:
\* the run is given up without events, and without both pollution and traffic.
MainCheckInputs ==
    /\ pc = "main"
    /\ pc' = IF SinEventos(eventos_list) THEN "abort_sin_eventos"
             ELSE IF SinFuentes(df_contam, df_trafico) THEN "abort_sin_fuentes"
             ELSE "aggregate"
    /\ eventos_raw' = eventos_list.rows
    /\ UNCHANGED <<raised, i_raw, parsed, parsed_from, skipped_no_date, skipped_malformed,
                   seen_ids, deduped, i_parsed, duplicados, dataVars, impactVars>>

\* if not events: the run is given up when no event is left.
MainCheckEvents ==
    /\ pc = "parsed"
    /\ deduped = <<>>
    /\ pc' = "abort_sin_parseados"
    /\ UNCHANGED <<raised, normVars, dataVars, impactVars>>

\* df_results = compute_event_impact(events, ...)
MainComputeImpact ==
    /\ deduped # <<>>
    /\ StartImpact

\* save_results: nothing is written for an empty table, nor when writing fails.
MainSave ==
    /\ pc = "done"
    /\ \E escrito \in BOOLEAN :
           pc' = IF results # <<>> /\ escrito THEN "guardado" ELSE "sin_guardar"
    /\ UNCHANGED <<raised, normVars, dataVars, impactVars>>

\* ------------------------------------------------------ inputs of the run
Mar1 == DayNumber(3, 1)
Mar2 == DayNumber(3, 2)

\* Rows of the tables read by load_data.
Lectura(dia, slot, variable, valor, calidad) ==
    [fecha_utc |-> dia * TicksPerDay + slot, variable |-> variable, valor |-> valor,
     calidad_dato |-> calidad]
Incidencia(dia, slot) == [fecha |-> dia * TicksPerDay + slot]
Meteo(dia, slot, precip, temp) ==
    [fecha |-> dia * TicksPerDay + slot, precipitacion_mm |-> precip, temp_c |-> temp]

\* The tables of at most MaxReadings rows taken from S.
Frames(S) == UNION { [1..n -> S] : n \in 0..MaxReadings }

\* Pollution readings of two days and two pollutants, with and without a value,
\* flagged ok or not.
ContamReadings ==
    { Lectura(Mar1, 0, "NO2", F(10), "ok"), Lectura(Mar1, 1, "NO2", F(20), "ok"),
      Lectura(Mar1, 1, "NO2", F(30), "ok"), Lectura(Mar1, 0, "NO2", NaN, "ok"),
      Lectura(Mar1, 0, "NO2", F(40), "invalid"), Lectura(Mar1, 0, "NO2", NaN, "missing"),
      Lectura(Mar2, 0, "NO2", NaN, "ok"), Lectura(Mar2, 1, "NO2", F(20), "ok"),
      Lectura(Mar1, 0, "PM10", F(30), "ok") }

TrafficRecords == {Incidencia(Mar1, 0), Incidencia(Mar1, 1), Incidencia(Mar2, 0)}

MeteoReadings ==
    <<Meteo(Mar1, 0, F(2), F(14)), Meteo(Mar1, 1, NaN, F(17)), Meteo(Mar2, 0, F(9), NaN)>>

\* Family 1: the pollution readings vary.  Family 2: the traffic records and
\* the weather readings vary.
AggInputs ==
    \/ /\ df_contam \in {NoneDF} \cup {DF(t) : t \in Frames(ContamReadings)}
       /\ df_trafico = NoneDF
       /\ df_meteo = NoneDF
    \/ /\ df_contam = DF(<<Lectura(Mar1, 0, "NO2", F(10), "ok")>>)
       /\ df_trafico \in {NoneDF} \cup {DF(t) : t \in Frames(TrafficRecords)}
       /\ df_meteo \in {NoneDF, DF(<<>>), DF(MeteoReadings)}

\* The daily tables before build_daily_aggregations.
NotAggregated ==
    /\ contam_diaria = NoneDF
    /\ trafico_diario = NoneDF
    /\ meteo_diaria = NoneDF

InitAgg ==
    /\ pc = "aggregate"
    /\ AggInputs
    /\ eventos_list = NoneDF
    /\ eventos_raw = <<>>
    /\ NotAggregated
    /\ NoOrchestrator
    /\ NormLocals
    /\ ImpactStart

NextAgg == Aggregate

SpecAgg == InitAgg /\ [][NextAgg]_vars

\* The files of a run: each table is missing, empty or holds a few rows; the
\* events are missing or a list of records, one of them without a date.
MainContam ==
    DF(<<Lectura(Feb8, 0, "NO2", F(30), "ok"), Lectura(Feb15, 0, "NO2", F(20), "ok"),
         Lectura(Feb15, 1, "NO2", F(40), "ok"), Lectura(Mar7, 0, "NO2", F(25), "invalid")>>)
MainTraffic ==
    DF(<<Incidencia(Feb8, 0), Incidencia(Feb8, 1), Incidencia(Feb15, 1), Incidencia(Mar14, 0)>>)
MainMeteo == DF(<<Meteo(Feb8, 0, F(1), F(14)), Meteo(Feb15, 0, F(2), F(16))>>)
MainRecords ==
    { Rec("Fallas", ABSENT, Dmy(8, 2), NoDate("absent"), "visitvalencia", "puntual", "alto"),
      Rec("Mascleta", ABSENT, Iso(3, 7), NoDate("absent"), "ayuntamiento", "puntual", "medio"),
      Rec("Concierto", ABSENT, NoDate("garbage"), NoDate("absent"), "visitvalencia",
          "puntual", "bajo") }

InitMain ==
    /\ pc = "main"
    /\ df_contam \in {NoneDF, DF(<<>>), MainContam}
    /\ df_trafico \in {NoneDF, DF(<<>>), MainTraffic}
    /\ df_meteo \in {NoneDF, DF(<<>>), MainMeteo}
    /\ eventos_list \in {NoneDF} \cup {DF(l) : l \in RawLists(MainRecords)}
    /\ eventos_raw = <<>>
    /\ NotAggregated
    /\ NoOrchestrator
    /\ NormLocals
    /\ ImpactStart

NextMain ==
    \/ MainCheckInputs
    \/ Aggregate
    \/ ParseRecord
    \/ DedupRecord
    \/ ReturnDeduped
    \/ MainCheckEvents
    \/ MainComputeImpact
    \/ ComputeEvent
    \/ FinishImpact
    \/ MainSave

SpecMain == InitMain /\ [][NextMain]_vars

\* --------------------------------------- claims on the impact computation
\* Positions of parsed and of deduped.
ParsedIdx == 1..Len(parsed)
DedupedIdx == 1..Len(deduped)

\* The event of the last pass of the loop over the events, once there is one.
Computed == pc \in {"impact", "done"} /\ i_ev > 1
LastEvent == deduped[i_ev - 1]

\* The tables the last pass selected a baseline in, with the days of each and
\* the baseline days selected.
Variables == DOMAIN mask_bl
Series ==
    (IF HasRows(meteo_diaria) THEN {"meteo"} ELSE {})
    \cup (IF HasRows(trafico_diario) THEN {"trafico"} ELSE {})
    \cup Variables
SeriesDays(x) ==
    IF x = "meteo" THEN DOMAIN meteo_diaria.rows
    ELSE IF x = "trafico" THEN DOMAIN trafico_diario.rows
    ELSE DaysOfVariable(contam_diaria, x)
BaselineOf(x) ==
    IF x = "meteo" THEN mask_bl_meteo
    ELSE IF x = "trafico" THEN mask_bl_traf
    ELSE mask_bl[x]

\* The daily precipitation of d is unknown: there is no weather table, or it has
\* no row for d, or the value of the row is missing.
PrecipUnknown(d) ==
    \/ meteo_diaria.none
    \/ d \notin DOMAIN meteo_diaria.rows
    \/ meteo_diaria.rows[d].precip_media.nan

\* The four conditions of a baseline day of the event whose days are event_dates.
Qualifies(d) ==
    /\ \E e \in event_dates : MonthOf(d) = MonthOf(e)
    /\ \E e \in event_dates : DayOfWeek(d) = DayOfWeek(e)
    /\ d \notin all_event_dates
    /\ \/ PrecipUnknown(d)
       \/ meteo_diaria.rows[d].precip_media.num
              <= PRECIPITACION_UMBRAL_MM * meteo_diaria.rows[d].precip_media.den

SpanOf(ev) == DateOf(ev.fecha_inicio)..DateOf(ev.fecha_fin)

\* C2: no baseline day of an event lies within the span [start date, end date]
\* of that event or of any other event of the deduplicated set.
C2_BaselineExclusivity ==
    Computed =>
        \A x \in Series : \A d \in BaselineOf(x) :
            \A k \in DedupedIdx : d \notin SpanOf(deduped[k])

\* C3: the event window and the days an event adds to the set of all event days
\* are exactly the calendar dates from date(start) to date(end), both included.
C3_InclusiveDaySpan ==
    Computed =>
        /\ event_dates = SpanOf(LastEvent)
        /\ all_event_dates = UNION {SpanOf(deduped[k]) : k \in DedupedIdx}

\* The rows of the last event.
LastRows == {k \in 1..Len(results) : results[k].evento_id = LastEvent.evento_id}

\* C4: impacto_pct is a number if and only if the mean over the event window is
\* a number, the baseline mean is a number and the baseline mean is > 0, and
\* likewise impacto_trafico_pct; otherwise it is the missing value; the divisor
\* is never <= 0.
C4_ImpactDefinedIff ==
    /\ Computed =>
           /\ \A k \in LastRows :
                  /\ results[k].variable \in Variables =>
                         LET v == results[k].variable
                         IN  (~results[k].impacto_pct.nan)
                                 <=> (/\ ~media_evento_val[v].nan
                                      /\ ~media_baseline_val[v].nan
                                      /\ media_baseline_val[v].num > 0)
                  /\ results[k].variable \notin Variables => results[k].impacto_pct.nan
                  /\ (~results[k].impacto_trafico_pct.nan)
                         <=> (/\ ~media_traf_evento.nan
                              /\ ~media_traf_baseline.nan
                              /\ media_traf_baseline.num > 0)
           /\ \A v \in Variables : \E k \in LastRows : results[k].variable = v
    /\ \A k \in 1..Len(results) :
           /\ results[k].impacto_pct.den > 0
           /\ results[k].impacto_trafico_pct.den > 0
           /\ ~results[k].impacto_pct.nan =>
                  /\ ~results[k].media_evento.nan
                  /\ ~results[k].media_baseline.nan
                  /\ results[k].n_dias_evento > 0
                  /\ results[k].n_dias_baseline > 0

\* An event with a mean over its window and a baseline mean that is a number
\* <= 0 has been given a row.
C4_Witness ==
    /\ Computed
    /\ \E k \in LastRows :
           /\ results[k].variable \in Variables
           /\ ~media_evento_val[results[k].variable].nan
           /\ ~media_baseline_val[results[k].variable].nan
           /\ media_baseline_val[results[k].variable].num <= 0
           /\ results[k].impacto_pct.nan

\* ------------------------------------------------- claims on the normalizer
\* The name-like field of a raw record: "nombre", or "rival" when it has none.
NameField(r) == IF r.nombre # ABSENT THEN r.nombre ELSE r.rival

\* The start-date field of a raw record as provided ("" when the key is absent).
StartField(r) == IF r.fecha_inicio.kind = "absent" THEN NoDate("empty") ELSE r.fecha_inicio

\* Two raw records name the same logical event: same name, start date and source.
SameLogicalEvent(r1, r2) ==
    /\ NameField(r1) = NameField(r2)
    /\ StartField(r1) = StartField(r2)
    /\ r1.fuente = r2.fuente

\* The kinds of start value that are absent, empty, no text or unparseable.
UnusableKinds == {"absent", "null", "number", "empty", "blank", "garbage"}

\* Raw positions the first loop has gone through.
Done == 1..(i_raw - 1)

\* C5: after parse_and_deduplicate_events no two output events share an
\* evento_id, the event retained for an id is the first parsed record with that
\* id, and two records of the same logical event (same name, start date as
\* provided and source) leave exactly one event.
C5_DedupKeepsFirst ==
    pc = "parsed" =>
        /\ \A a, b \in DedupedIdx :
               a # b => deduped[a].evento_id # deduped[b].evento_id
        /\ \A k \in ParsedIdx :
               (\A j \in 1..(k - 1) : parsed[j].evento_id # parsed[k].evento_id)
                   => \E a \in DedupedIdx : deduped[a] = parsed[k]
        /\ \A a \in DedupedIdx : \E k \in ParsedIdx :
               /\ parsed[k] = deduped[a]
               /\ \A j \in 1..(k - 1) : parsed[j].evento_id # parsed[k].evento_id
        /\ \A k1, k2 \in ParsedIdx :
               (k1 < k2 /\ SameLogicalEvent(eventos_raw[parsed_from[k1]],
                                            eventos_raw[parsed_from[k2]]))
                   => Cardinality({a \in DedupedIdx :
                                     deduped[a].evento_id = parsed[k1].evento_id}) = 1

\* A list holding the same logical event twice, with different end dates, has
\* been deduplicated to one event.
C5_Witness ==
    /\ pc = "parsed"
    /\ Len(parsed) = 2
    /\ Len(deduped) = 1
    /\ parsed[1] # parsed[2]
    /\ SameLogicalEvent(eventos_raw[1], eventos_raw[2])

\* C6: two raw records that agree on name, start date and source get the same
\* evento_id, wherever they stand in the list and whatever their other fields
\* (end date, type, expected impact) and whether or not their dates were
\* exchanged.
C6_IdFromNameStartSource ==
    \A k1, k2 \in ParsedIdx :
        SameLogicalEvent(eventos_raw[parsed_from[k1]], eventos_raw[parsed_from[k2]])
            => parsed[k1].evento_id = parsed[k2].evento_id

\* Two records of the same name, start and source, one of which had its dates
\* exchanged and the other not, have both been given their id.
C6_Witness ==
    /\ Len(parsed) = 2
    /\ SameLogicalEvent(eventos_raw[1], eventos_raw[2])
    /\ eventos_raw[1].fecha_fin # eventos_raw[2].fecha_fin
    /\ parsed[1].fecha_inicio # parsed[2].fecha_inicio

\* C7: two raw records of the same name and the same start date that come from
\* two different sources are reduced to a single event.
C7_MultiSourceDedup ==
    pc = "parsed" =>
        \A k1, k2 \in ParsedIdx :
            LET r1 == eventos_raw[parsed_from[k1]]
                r2 == eventos_raw[parsed_from[k2]]
            IN  (/\ k1 < k2
                 /\ NameField(r1) = NameField(r2)
                 /\ StartField(r1) = StartField(r2)
                 /\ r1.fuente # r2.fuente)
                    => Cardinality({a \in DedupedIdx :
                                      deduped[a] \in {parsed[k1], parsed[k2]}}) = 1

Returned == pc = "done"

\* The rows of the event of a given evento_id.
RowsOf(id) == {k \in 1..Len(results) : results[k].evento_id = id}

\* The evento_id of the events, and of those the loop has been through.
EventIds == {deduped[k].evento_id : k \in DedupedIdx}
ComputedIds == {deduped[k].evento_id : k \in 1..(i_ev - 1)}

\* C11: every event passed to compute_event_impact has at least one row in the
\* returned table, whichever series are present: the evento_id of the rows are
\* exactly the evento_id of the deduplicated events (and, during the loop, of
\* the events the loop has been through).
C11_EveryEventHasARow ==
    /\ Returned => {results[k].evento_id : k \in 1..Len(results)} = EventIds
    /\ pc = "impact" => {results[k].evento_id : k \in 1..Len(results)} = ComputedIds

\* The table of two events has been returned with no pollution, no traffic and
\* no weather table at all.
C11_Witness ==
    /\ Returned
    /\ Len(deduped) = 2
    /\ contam_diaria.none /\ trafico_diario.none /\ meteo_diaria.none
    /\ \A k \in DedupedIdx : RowsOf(deduped[k].evento_id) # {}

\* C13: an error raised in the pass of one event does not keep the events whose
\* own pass raises nothing from having their rows in the returned table.
C13_FailureIsPerEvent ==
    pc \in {"done", "raised"} =>
        \A k \in DedupedIdx :
            IsText(deduped[k].nombre) => Returned /\ RowsOf(deduped[k].evento_id) # {}

\* The figures of the weather table over a set of days.
TempMean(days) ==
    IF HasRows(meteo_diaria)
    THEN Mean(days \cap DOMAIN meteo_diaria.rows,
              [d \in DOMAIN meteo_diaria.rows |-> meteo_diaria.rows[d].temp_media])
    ELSE NaN
PrecipMean(days) ==
    IF HasRows(meteo_diaria)
    THEN Mean(days \cap DOMAIN meteo_diaria.rows,
              [d \in DOMAIN meteo_diaria.rows |-> meteo_diaria.rows[d].precip_media])
    ELSE NaN

\* The row carries the traffic percentage and the weather context of the last pass.
CarriesContext(row) ==
    /\ row.impacto_trafico_pct = Round(ImpactPct(media_traf_evento, media_traf_baseline), 2)
    /\ row.media_temp_evento = Round(TempMean(event_dates), 1)
    /\ row.media_precip_evento = Round(PrecipMean(event_dates), 2)
    /\ row.media_temp_baseline = Round(TempMean(mask_bl_meteo), 1)
    /\ row.media_precip_baseline = Round(PrecipMean(mask_bl_meteo), 2)

\* C14: with the pollution table missing or empty, every event has exactly one
\* row, whose media_evento, media_baseline and impacto_pct are the missing value
\* and which carries the traffic percentage and the weather context of the event.
C14_OneRowWithoutPollution ==
    (pc \in {"impact", "done"} /\ ~HasRows(contam_diaria)) =>
        /\ \A id \in ComputedIds :
               /\ Cardinality(RowsOf(id)) = 1
               /\ \A k \in RowsOf(id) :
                      /\ results[k].media_evento.nan
                      /\ results[k].media_baseline.nan
                      /\ results[k].impacto_pct.nan
        /\ Computed => \A k \in LastRows : CarriesContext(results[k])

\* Without a pollution table an event has been given a row with a traffic
\* percentage and a weather context that are numbers.
C14_Witness ==
    /\ Computed
    /\ ~HasRows(contam_diaria)
    /\ \E k \in LastRows :
           /\ ~results[k].impacto_trafico_pct.nan
           /\ ~results[k].media_temp_evento.nan
           /\ ~results[k].media_precip_baseline.nan

\* The pollutants of the pollution table, and the days of the last event window
\* that have a row of some pollutant.
TableVariables == {p[2] : p \in DOMAIN contam_diaria.rows}
NoOverlap ==
    /\ Computed
    /\ HasRows(contam_diaria)
    /\ \A p \in DOMAIN contam_diaria.rows : p[1] \notin event_dates

\* The traffic percentage of the row is the rounded percentage of the last pass.
CarriesTraffic(row) ==
    row.impacto_trafico_pct = Round(ImpactPct(media_traf_evento, media_traf_baseline), 2)

\* C15 as stated: an event none of whose days has a row in the pollution table,
\* which has rows for other days, gets exactly one row, with media_evento,
\* media_baseline and impacto_pct missing and the traffic percentage of the event.
C15_NoOverlapOneRow ==
    NoOverlap =>
        /\ Cardinality(LastRows) = 1
        /\ \A k \in LastRows :
               /\ results[k].media_evento.nan
               /\ results[k].media_baseline.nan
               /\ results[k].impacto_pct.nan
               /\ CarriesTraffic(results[k])

\* C15 amended: such an event gets exactly one row for each pollutant of the
\* table, with media_evento and impacto_pct missing, n_dias_evento = 0, the
\* baseline mean of that pollutant (a number when the baseline has data) and the
\* traffic percentage of the event.
C15_NoOverlapRowPerVariable ==
    NoOverlap =>
        /\ {results[k].variable : k \in LastRows} = TableVariables
        /\ Cardinality(LastRows) = Cardinality(TableVariables)
        /\ \A k \in LastRows :
               /\ results[k].media_evento.nan
               /\ results[k].impacto_pct.nan
               /\ results[k].n_dias_evento = 0
               /\ results[k].media_baseline = Round(media_baseline_val[results[k].variable], 2)
               /\ CarriesTraffic(results[k])

\* An event without pollution data on its days has been given two rows, one
\* with a baseline mean that is a number.
C15_Witness ==
    /\ NoOverlap
    /\ Cardinality(LastRows) = 2
    /\ \E k \in LastRows : ~results[k].media_baseline.nan /\ results[k].media_evento.nan

\* The days of a set that hold a value of pollutant v.
Contributing(days, v) ==
    {d \in days : <<d, v>> \in DOMAIN contam_diaria.rows
                    /\ ~contam_diaria.rows[<<d, v>>].valor_medio.nan}

\* C16: n_dias_evento is the number of days of the event window that gave a
\* value to media_evento, n_dias_baseline the number of baseline days that gave
\* a value to media_baseline; n_dias_evento = 0 whenever media_evento is missing.
C16_DayCountsAreContributions ==
    /\ \A k \in 1..Len(results) :
           /\ results[k].media_evento.nan => results[k].n_dias_evento = 0
           /\ results[k].media_baseline.nan => results[k].n_dias_baseline = 0
    /\ Computed =>
           \A k \in LastRows :
               results[k].variable \in Variables =>
                   /\ results[k].n_dias_evento
                          = Cardinality(Contributing(event_dates, results[k].variable))
                   /\ results[k].n_dias_baseline
                          = Cardinality(Contributing(mask_bl[results[k].variable],
                                                     results[k].variable))

\* (a - b) / b * 100 for b > 0, the missing value otherwise.
Pct(a, b) ==
    IF ~a.nan /\ ~b.nan /\ b.num > 0
    THEN Frac((a.num * b.den - b.num * a.den) * 100, a.den * b.num)
    ELSE NaN

\* The mean of the daily incident counts over the days of a set.
IncidentMean(days) ==
    LET with == IF HasRows(trafico_diario) THEN days \cap DOMAIN trafico_diario.rows ELSE {}
        total == SumOf(with, [d \in with |-> F(trafico_diario.rows[d].n_incidencias)])
    IN  IF with = {} THEN NaN ELSE Frac(total.num, total.den * Cardinality(with))

\* r is x written with nd decimals: the nearest such number.
IsRounding(r, x, nd) ==
    IF x.nan THEN r.nan
    ELSE /\ ~r.nan
         /\ Pow10(nd) % r.den = 0
         /\ LET diff == r.num * x.den - x.num * r.den
                 dist == IF diff < 0 THEN -diff ELSE diff
             IN  2 * Pow10(nd) * dist <= r.den * x.den

\* r is x to within one unit of the nd-th decimal.
Within(r, x, nd) ==
    IF x.nan THEN r.nan
    ELSE /\ ~r.nan
         /\ LET diff == r.num * x.den - x.num * r.den
                 dist == IF diff < 0 THEN -diff ELSE diff
             IN  Pow10(nd) * dist <= r.den * x.den

\* C17: the rows of one event carry the same impacto_trafico_pct, which is the
\* percentage of the mean daily incident count of the event's days against the
\* mean over the days of the traffic table that qualify as baseline, and is
\* missing in every row when the traffic table is missing or empty.
C17_TrafficOncePerEvent ==
    /\ \A j, k \in 1..Len(results) :
           results[j].evento_id = results[k].evento_id
               => results[j].impacto_trafico_pct = results[k].impacto_trafico_pct
    /\ ~HasRows(trafico_diario) =>
           \A k \in 1..Len(results) : results[k].impacto_trafico_pct.nan
    /\ (Computed /\ HasRows(trafico_diario)) =>
           \A k \in LastRows :
               IsRounding(results[k].impacto_trafico_pct,
                          Pct(IncidentMean(event_dates),
                              IncidentMean({d \in DOMAIN trafico_diario.rows : Qualifies(d)})),
                          2)

\* An event has two rows with the same traffic percentage, a number, computed
\* from two days of its window.
C17_Witness ==
    /\ Computed
    /\ Cardinality(LastRows) = 2
    /\ Cardinality(event_dates \cap DOMAIN trafico_diario.rows) = 2
    /\ \A k \in LastRows : ~results[k].impacto_trafico_pct.nan
                            /\ results[k].impacto_trafico_pct.num # 0

\* C18 as stated: in a row with an impacto_pct, the reported baseline mean is
\* > 0 and impacto_pct is the percentage of the two reported means, to within
\* one unit of its second decimal.
C18_ImpactFromReportedMeans ==
    \A k \in 1..Len(results) :
        ~results[k].impacto_pct.nan =>
            /\ results[k].media_baseline.num > 0
            /\ Within(results[k].impacto_pct,
                      Pct(results[k].media_evento, results[k].media_baseline), 2)

\* C18 amended: in a row with an impacto_pct, the baseline mean is > 0 and
\* impacto_pct is, to two decimals, the percentage of the two means before they
\* are rounded; the reported means are these means to two decimals, so that the
\* reported baseline mean is >= 0 and may be 0.
C18_ImpactFromExactMeans ==
    Computed =>
        \A k \in LastRows :
            (results[k].variable \in Variables /\ ~results[k].impacto_pct.nan) =>
                LET v == results[k].variable
                IN  /\ media_baseline_val[v].num > 0
                    /\ IsRounding(results[k].impacto_pct,
                                  Pct(media_evento_val[v], media_baseline_val[v]), 2)
                    /\ IsRounding(results[k].media_evento, media_evento_val[v], 2)
                    /\ IsRounding(results[k].media_baseline, media_baseline_val[v], 2)
                    /\ results[k].media_baseline.num >= 0

\* A row has an impacto_pct and a reported baseline mean of 0.0.
C18_Witness ==
    /\ Computed
    /\ \E k \in LastRows :
           /\ ~results[k].impacto_pct.nan
           /\ results[k].media_baseline = F(0)
           /\ media_baseline_val[results[k].variable].num > 0

\* ------------------------------------------------------- claims on the run
\* The ways main gives the run up before compute_event_impact, and the
\* positions from compute_event_impact on.
AbortStates == {"abort_sin_eventos", "abort_sin_fuentes", "abort_sin_parseados"}
ImpactStates == {"impact", "done", "guardado", "sin_guardar", "raised"}

\* Of the files of the run: no raw event was loaded; no record yields an event;
\* neither the pollution nor the traffic file could be read.
NoRawEvents == eventos_list.none \/ eventos_list.rows = <<>>
NoSurvivor ==
    \A i \in DOMAIN eventos_list.rows : NormalizeRecord(eventos_list.rows[i]).outcome # "ok"
NoSources == df_contam.none /\ df_trafico.none

\* The rows handed to save_results cover every surviving event.
RowsForEverySurvivor ==
    pc \in {"done", "guardado", "sin_guardar"} =>
        /\ deduped # <<>>
        /\ \A k \in DedupedIdx : RowsOf(deduped[k].evento_id) # {}

\* C12 as stated: the run stops before the impact computation if and only if no
\* raw event was loaded or no event survives; a missing series never stops it,
\* and rows are then computed for every surviving event.
C12_StopsOnlyWithoutEvents ==
    /\ pc \in AbortStates => (NoRawEvents \/ NoSurvivor)
    /\ pc \in ImpactStates => ~(NoRawEvents \/ NoSurvivor)
    /\ RowsForEverySurvivor

\* C12 amended: the run stops before the impact computation if and only if no
\* raw event was loaded, or neither the pollution nor the traffic table was
\* loaded, or no event survives; any other missing or empty table does not stop
\* it, and rows are then computed for every surviving event.
C12_StopsWithoutEventsOrSources ==
    /\ pc \in AbortStates => (NoRawEvents \/ NoSources \/ NoSurvivor)
    /\ pc \in ImpactStates => ~(NoRawEvents \/ NoSources \/ NoSurvivor)
    /\ pc = "abort_sin_fuentes" => (NoSources /\ ~NoRawEvents)
    /\ RowsForEverySurvivor

\* A run without traffic and without weather, and with an empty pollution table,
\* has written the rows of its two events.
C12_Witness ==
    /\ pc = "guardado"
    /\ df_trafico.none /\ df_meteo.none /\ ~HasRows(df_contam)
    /\ Len(deduped) = 2
    /\ \A k \in DedupedIdx : RowsOf(deduped[k].evento_id) # {}

\* ------------------------------------------- claims on the daily aggregations
\* build_daily_aggregations has run on pollution readings.
Aggregated == pc \notin {"main", "aggregate"} \cup AbortStates

\* The valid readings of a day and pollutant: flagged ok and with a value.
ValidReadings(d, v) ==
    {i \in DOMAIN df_contam.rows :
        /\ df_contam.rows[i].calidad_dato = "ok"
        /\ ~df_contam.rows[i].valor.nan
        /\ DateOf(df_contam.rows[i].fecha_utc) = d
        /\ df_contam.rows[i].variable = v}
ReadingKeys ==
    {<<DateOf(df_contam.rows[i].fecha_utc), df_contam.rows[i].variable>> :
        i \in DOMAIN df_contam.rows}

\* C19: for a day and pollutant with a valid reading, the daily row holds the
\* arithmetic mean of the valid readings and their number; the other readings
\* do not count.
C19_DailyMeanOfValidReadings ==
    (Aggregated /\ HasRows(df_contam)) =>
        \A p \in ReadingKeys :
            LET valid == ValidReadings(p[1], p[2])
                total == SumOf(valid, [i \in valid |-> df_contam.rows[i].valor])
            IN  valid # {} =>
                    /\ p \in DOMAIN contam_diaria.rows
                    /\ contam_diaria.rows[p].n_registros = Cardinality(valid)
                    /\ ~contam_diaria.rows[p].valor_medio.nan
                    /\ contam_diaria.rows[p].valor_medio.num * total.den * Cardinality(valid)
                           = total.num * contam_diaria.rows[p].valor_medio.den

\* The readings 10, 20, missing and 30 of one day have given the value 20 and
\* the count 3.
C19_Witness ==
    /\ Aggregated
    /\ HasRows(df_contam)
    /\ Len(df_contam.rows) = 4
    /\ \A i \in DOMAIN df_contam.rows :
           /\ df_contam.rows[i].calidad_dato = "ok"
           /\ <<DateOf(df_contam.rows[i].fecha_utc), df_contam.rows[i].variable>>
                  = <<Mar1, "NO2">>
    /\ {df_contam.rows[i].valor : i \in DOMAIN df_contam.rows} = {F(10), F(20), NaN, F(30)}
    /\ contam_diaria.rows[<<Mar1, "NO2">>] = [valor_medio |-> F(20), n_registros |-> 3]

\* C20: a row of the daily pollution table stands for a day and pollutant with
\* at least one valid reading, and a row of the daily traffic table for a day
\* with at least one record.
C20_NoRowWithoutValidReading ==
    Aggregated =>
        /\ HasRows(df_contam) =>
               \A p \in DOMAIN contam_diaria.rows : ValidReadings(p[1], p[2]) # {}
        /\ HasRows(df_trafico) =>
               \A d \in DOMAIN trafico_diario.rows :
                   \E i \in DOMAIN df_trafico.rows : DateOf(df_trafico.rows[i].fecha) = d

\* ------------------------------------------------- claims on the scenarios
\* The only event is the single day Saturday 2026-03-07, and series x has rows
\* for Saturday 2026-02-07, without rain, and Saturday 2026-02-14, with 8 mm.
SaturdayScenario(x) ==
    /\ Computed
    /\ Len(deduped) = 1
    /\ SpanOf(deduped[1]) = {Mar7}
    /\ x \in Series
    /\ {Feb7, Feb14} \subseteq SeriesDays(x)
    /\ ~PrecipUnknown(Feb14) /\ meteo_diaria.rows[Feb14].precip_media = F(8)
    /\ PrecipUnknown(Feb7) \/ meteo_diaria.rows[Feb7].precip_media = F(0)

\* C21 as stated: in that scenario 2026-02-07 is in the baseline of the event
\* and 2026-02-14 is not.
C21_FebruarySaturdayIncluded ==
    \A x \in {"meteo", "trafico", "NO2", "PM10"} :
        SaturdayScenario(x) => (Feb7 \in BaselineOf(x) /\ Feb14 \notin BaselineOf(x))

\* C21 amended: in that scenario neither 2026-02-07 nor 2026-02-14 is in the
\* baseline of the event, both being days of February while the event is in
\* March; a Saturday of March without rain and without event, 2026-03-14, is in
\* the baseline when the series has a row for it.
C21_FebruarySaturdaysExcluded ==
    \A x \in {"meteo", "trafico", "NO2", "PM10"} :
        SaturdayScenario(x) =>
            /\ Feb7 \notin BaselineOf(x)
            /\ Feb14 \notin BaselineOf(x)
            /\ (Mar14 \in SeriesDays(x)
                   /\ (PrecipUnknown(Mar14) \/ meteo_diaria.rows[Mar14].precip_media = F(0)))
                  => Mar14 \in BaselineOf(x)

\* The scenario has been computed for a pollutant that also has a row for
\* 2026-03-14, which is its whole baseline.
C21_Witness ==
    /\ SaturdayScenario("NO2")
    /\ mask_bl["NO2"] = {Mar14}

\* -------------------------------------------------- claims on the counters
\* No row of the event id carries a figure: media_evento, media_baseline and
\* impacto_trafico_pct are missing in each of them.
NoDefinedFigure(id) ==
    \A k \in RowsOf(id) :
        /\ results[k].media_evento.nan
        /\ results[k].media_baseline.nan
        /\ results[k].impacto_trafico_pct.nan

\* C26: compute_event_impact counts every event once, as processed or as
\* skipped (eventos_procesados + eventos_saltados = number of events), and every
\* event none of whose rows carries a defined figure is among the skipped ones.
C26_SkippedWhenNoFigure ==
    (Returned /\ deduped # <<>>) =>
        /\ eventos_procesados + eventos_saltados = Len(deduped)
        /\ Cardinality({id \in EventIds : NoDefinedFigure(id)}) <= eventos_saltados

\* ------------------------------------------- claims on the set of event days
\* The days of the daily ranges of all the deduplicated events.
AllEventDays ==
    UNION { {DateOf(t) : t \in DateRange(deduped[k].fecha_inicio, deduped[k].fecha_fin)} :
              k \in DedupedIdx }

\* The three conditions of a baseline day that do not look at the events' days.
QualifiesButEvents(d) ==
    /\ \E e \in event_dates : MonthOf(d) = MonthOf(e)
    /\ \E e \in event_dates : DayOfWeek(d) = DayOfWeek(e)
    /\ \/ PrecipUnknown(d)
       \/ meteo_diaria.rows[d].precip_media.num
              <= PRECIPITACION_UMBRAL_MM * meteo_diaria.rows[d].precip_media.den

\* C27: the set of all event days is built from the complete deduplicated list
\* before the first baseline mask is computed, no pass of the loop modifies it
\* (it is the days of all events before the first pass, between the passes and
\* after the last one), and the same set is used for every event and for every
\* series (weather, traffic and each pollutant): the masks of each pass are
\* those computed with the days of all events.
C27_EventDaysBuiltOnce ==
    \A all_days \in {AllEventDays} :
        /\ (pc = "impact" \/ (pc = "done" /\ deduped # <<>>)) => all_event_dates = all_days
        /\ Computed =>
              \A x \in Series : \A d \in SeriesDays(x) :
                  (d \in BaselineOf(x)) <=> (d \notin all_days /\ QualifiesButEvents(d))

\* The loop has been through two events with different days, with a weather
\* table, a traffic table and a pollutant, and a day of the other event that
\* meets the three other conditions has been left out of a baseline.
C27_Witness ==
    /\ Computed
    /\ i_ev > 2
    /\ {"meteo", "trafico"} \subseteq Series
    /\ Variables # {}
    /\ \E x \in Series : \E d \in SeriesDays(x) \ BaselineOf(x) :
           d \in all_event_dates \ event_dates /\ QualifiesButEvents(d)

\* ------------------------------------------------ claims on the order of events
\* The rows compute_event_impact leaves for a list of events, none of which
\* makes it raise: the set of days of all of them first, then one pass for each
\* in the order of the list.
RECURSIVE LoopRows(_, _, _)
LoopRows(events, all_dates, i) ==
    IF i > Len(events) THEN <<>>
    ELSE EventPass(events[i], all_dates, contam_diaria, trafico_diario, meteo_diaria).rows
            \o LoopRows(events, all_dates, i + 1)

RowsInOrder(events) == LoopRows(events, get_all_event_dates(events), 1)

\* The lists with the same events in another order.
Reorderings(events) ==
    { [k \in 1..Len(events) |-> events[f[k]]] :
        f \in {g \in [1..Len(events) -> 1..Len(events)] :
                  \A j, k \in 1..Len(events) : j # k => g[j] # g[k]} }

RowSet(rows) == {rows[k] : k \in 1..Len(rows)}

\* C28: the rows of the returned table are, as a set, those the function leaves
\* for the same deduplicated events taken in any other order.
C28_OrderIndependent ==
    (Returned /\ deduped # <<>>) =>
        \A rows \in {RowSet(results)} :
            \A events \in Reorderings(deduped) \ {deduped} : RowSet(RowsInOrder(events)) = rows

\* A table has been returned for two events with different days, where a day of
\* the second event, met later in the loop, has been kept out of a baseline of
\* the first one.
C28_Witness ==
    /\ Returned
    /\ Len(deduped) = 2
    /\ Cardinality(RowSet(results)) >= 2
    /\ LET first == EventPass(deduped[1], all_event_dates, contam_diaria, trafico_diario,
                              meteo_diaria)
           alone == EventPass(deduped[1], get_all_event_dates(<<deduped[1]>>), contam_diaria,
                              trafico_diario, meteo_diaria)
       IN  first.rows # alone.rows

\* --------------------------------------------- claims on the normalizer's counts
\* The place in the raw list of the first record that was parsed to an event
\* with the evento_id of the j-th output event.
FirstRaw(j) ==
    LET k == CHOOSE k \in ParsedIdx :
                 /\ parsed[k].evento_id = deduped[j].evento_id
                 /\ \A h \in 1..(k - 1) : parsed[h].evento_id # deduped[j].evento_id
    IN  parsed_from[k]

\* C29: parse_and_deduplicate_events accounts for every raw record once: the
\* number of raw records is the number of output events plus the records
\* skipped for their start date, the records skipped as malformed and the
\* duplicates dropped; and the output events stand in the order of their first
\* occurrences in the raw list.
C29_EveryRecordAccounted ==
    pc = "parsed" =>
        /\ Len(eventos_raw) = Len(deduped) + skipped_no_date + skipped_malformed + duplicados
        /\ \A j \in DedupedIdx :
               \E k \in ParsedIdx : parsed[k].evento_id = deduped[j].evento_id
        /\ \A i, j \in DedupedIdx : i < j => FirstRaw(i) < FirstRaw(j)

\* Two events were returned from a longer list in which a duplicate of the
\* first one came after the second one.
C29_Witness ==
    /\ pc = "parsed"
    /\ Len(eventos_raw) > Len(deduped)
    /\ Len(deduped) = 2
    /\ duplicados = 1
    /\ parsed[Len(parsed)].evento_id = deduped[1].evento_id

\* ------------------------------------------- claims on the precipitation context
\* C30: media_precip_baseline of a row, when it is a number, is <= 5 mm
\* (PRECIPITACION_UMBRAL_MM); media_precip_evento has no such bound (see the
\* witness, a row whose media_precip_evento is above it).
C30_BaselinePrecipAtMostThreshold ==
    \A k \in 1..Len(results) :
        ~results[k].media_precip_baseline.nan
            => LeqInt(results[k].media_precip_baseline, PRECIPITACION_UMBRAL_MM)

\* A row carries a baseline precipitation, within the threshold, next to an
\* event precipitation above the threshold.
C30_Witness ==
    \E k \in 1..Len(results) :
        /\ ~results[k].media_precip_baseline.nan
        /\ Positive(results[k].media_precip_baseline)
        /\ ~results[k].media_precip_evento.nan
        /\ ~LeqInt(results[k].media_precip_evento, PRECIPITACION_UMBRAL_MM)

\* ---------------------------------------------------------- pipeline_etl.py
\* ETL_MODULES, in the order of the list (the display names are left out).
ETL_MODULES ==
    << [module |-> "normalizar_contaminacion", fase |-> "5.1"],
       [module |-> "limpiar_meteorologia", fase |-> "5.2"],
       [module |-> "limpiar_trafico", fase |-> "5.3"],
       [module |-> "calcular_estadisticas", fase |-> "5.4"],
       [module |-> "correlacion_eventos", fase |-> "5.5"] >>

\* EXPECTED_OUTPUTS: the names of the files.
EXPECTED_OUTPUTS ==
    << "contaminacion_normalizada.parquet", "meteorologia_limpio.csv", "trafico_limpio.csv",
       "contaminacion_media_anual_barrio.csv", "precipitacion_media_mensual.csv",
       "tendencias_historicas.csv", "impacto_eventos.csv" >>

\* What importlib.import_module(mod_name) and hasattr(module, "main") come to:
\* the module is loaded and has a main, the import raises ImportError or
\* another Exception, or the module has no main.
ImportOutcomes == {"ok", "ImportError", "Exception", "no_main"}

\* What module.main() comes to: it returns or it raises an Exception.
MainOutcomes == {"return", "Exception"}

\* An exception of module.main() with no except clause around it.
EtlUncaught == "raise"

\* except Exception around module.main(): result["estado"] = "failed"
EtlExcept == "failed"

\* run_module of pipeline_etl.py: the dictionary it returns for a module whose
\* import and main() come to the given outcomes (the duration is left out).
etl_run_module(module_info, imported, ran) ==
    LET result == [modulo |-> module_info.module, fase |-> module_info.fase,
                   estado |-> "pending", error |-> NULL]
    IN  IF imported = "ImportError"
        THEN [result EXCEPT !.estado = "import_error", !.error = "ImportError"]
        ELSE IF imported = "Exception"
        THEN [result EXCEPT !.estado = "import_error", !.error = "Exception"]
        ELSE IF imported = "no_main"
        THEN [result EXCEPT !.estado = "import_error", !.error = "sin main()"]
        ELSE IF ran = "return"
        THEN [result EXCEPT !.estado = "success"]
        ELSE [result EXCEPT !.estado = EtlExcept, !.error = "Exception"]

\* for i, module_info in enumerate(ETL_MODULES, 1): results.append(run_module(...)).
\* An exception that run_module does not catch ends the process with a
\* traceback and status 1.
EtlRunModule ==
    /\ etl_pc = "modules"
    /\ Len(etl_results) < Len(ETL_MODULES)
    /\ \E imported \in ImportOutcomes, ran \in MainOutcomes :
          LET module_info == ETL_MODULES[Len(etl_results) + 1]
              result == etl_run_module(module_info, imported, ran)
              called == IF imported = "ok" THEN <<module_info.module>> ELSE <<>>
          IN  /\ etl_main_calls' = etl_main_calls \o called
              /\ IF result.estado = "raise"
                 THEN /\ etl_pc' = "crashed"
                      /\ etl_exit' = 1
                      /\ UNCHANGED etl_results
                 ELSE /\ etl_results' = Append(etl_results, result)
                      /\ UNCHANGED <<etl_pc, etl_exit>>
    /\ UNCHANGED <<pc, raised, normVars, dailyVars, loadVars, smVars, impactVars,
                   etl_validation, etl_summary>>

\* The files a validation may find at fault: none, one of them, or all.
ValidationCases ==
    LET files == {EXPECTED_OUTPUTS[k] : k \in 1..Len(EXPECTED_OUTPUTS)}
    IN  {S \in SUBSET files : Cardinality(S) <= 1 \/ S = files}

\* validation = validate_outputs(logger): each expected file is "OK" or has a
\* warning (not found, empty, key column missing, too few rows); the function
\* counts and never raises.
EtlValidate ==
    /\ etl_pc = "modules"
    /\ Len(etl_results) = Len(ETL_MODULES)
    /\ \E faulty \in ValidationCases :
          etl_validation' =
              [none |-> FALSE,
               total_checks |-> Len(EXPECTED_OUTPUTS),
               passed |-> Len(EXPECTED_OUTPUTS) - Cardinality(faulty),
               warnings |-> Cardinality(faulty),
               details |-> [k \in 1..Len(EXPECTED_OUTPUTS) |->
                              [file |-> EXPECTED_OUTPUTS[k],
                               status |-> IF EXPECTED_OUTPUTS[k] \in faulty THEN "FAIL"
                                          ELSE "OK"]]]
    /\ etl_pc' = "summary"
    /\ UNCHANGED <<pc, raised, normVars, dailyVars, loadVars, smVars, impactVars,
                   etl_results, etl_main_calls, etl_summary, etl_exit>>

\* sum(1 for r in results if r["estado"] == estado)
CountEstado(results_, estado) ==
    Cardinality({k \in 1..Len(results_) : results_[k].estado = estado})

\* print_summary(results, validation, elapsed_total, logger)
EtlSummary ==
    /\ etl_pc = "summary"
    /\ etl_summary' =
          [none |-> FALSE,
           n_success |-> CountEstado(etl_results, "success"),
           n_failed |-> CountEstado(etl_results, "failed"),
           n_import_err |-> CountEstado(etl_results, "import_error"),
           integrity_status |-> IF etl_validation.warnings = 0 THEN "PASSED"
                                ELSE "WARNINGS",
           lines |-> [k \in 1..Len(etl_results) |->
                        <<etl_results[k].modulo,
                          IF etl_results[k].estado = "success" THEN "OK"
                          ELSE IF etl_results[k].estado = "failed" THEN "FAILED"
                          ELSE "IMPORT_ERROR">>]]
    /\ etl_pc' = "status"
    /\ UNCHANGED <<pc, raised, normVars, dailyVars, loadVars, smVars, impactVars,
                   etl_results, etl_main_calls, etl_validation, etl_exit>>

\* The modules that failed in main() only.
n_failed_only(results_) ==
    Cardinality({k \in 1..Len(results_) : results_[k].estado = "failed"})

\* n_failed = sum(1 for r in results if r["estado"] in ("failed", "import_error"))
n_failed(results_) ==
    Cardinality({k \in 1..Len(results_) : results_[k].estado \in {"failed", "import_error"}})

\* if n_failed > 0: sys.exit(1); otherwise main returns and the process ends
\* with status 0.
EtlExit ==
    /\ etl_pc = "status"
    /\ etl_exit' = IF n_failed(etl_results) > 0 THEN 1 ELSE 0
    /\ etl_pc' = "exited"
    /\ UNCHANGED <<pc, raised, normVars, dailyVars, loadVars, smVars, impactVars,
                   etl_results, etl_main_calls, etl_validation, etl_summary>>

\* pipeline_etl.main is entered: results = [].  Nothing of
\* correlacion_eventos.py is followed inside the call of its main().
InitEtl ==
    /\ pc = "pipeline_etl"
    /\ etl_pc = "modules"
    /\ etl_results = <<>>
    /\ etl_main_calls = <<>>
    /\ etl_validation = [none |-> TRUE]
    /\ etl_summary = [none |-> TRUE]
    /\ etl_exit = None
    /\ StreamIdle
    /\ eventos_raw = <<>>
    /\ NotLoaded
    /\ NotAggregated
    /\ NormLocals
    /\ ImpactStart

NextEtl == EtlRunModule \/ EtlValidate \/ EtlSummary \/ EtlExit

SpecEtl == InitEtl /\ [][NextEtl]_vars

\* The script runs its statements one after the other on a single thread:
\* each step that can be taken is taken.
SpecEtlLive == SpecEtl /\ WF_vars(NextEtl)

\* ------------------------------------------------- claims on pipeline_etl.py
\* The results so far are those of the first modules of ETL_MODULES, in order,
\* main() was called once for each module that could be loaded and for no
\* other, no exception has ended the run, validation comes after the fifth
\* module, the summary after validation and the end after the summary.
EtlInOrder ==
    /\ Len(etl_results) <= Len(ETL_MODULES)
    /\ \A k \in 1..Len(etl_results) :
           /\ etl_results[k].modulo = ETL_MODULES[k].module
           /\ etl_results[k].fase = ETL_MODULES[k].fase
           /\ etl_results[k].estado \in {"success", "failed", "import_error"}
    /\ etl_main_calls =
           LET ran == SelectSeq(etl_results, LAMBDA r : r.estado \in {"success", "failed"})
           IN  [k \in 1..Len(ran) |-> ran[k].modulo]
    /\ etl_pc \in {"modules", "summary", "status", "exited"}
    /\ ~etl_validation.none => Len(etl_results) = Len(ETL_MODULES)
    /\ ~etl_summary.none => ~etl_validation.none
    /\ etl_pc = "exited" => ~etl_summary.none

\* C22: pipeline_etl.main runs the five modules once each in the order 5.1
\* normalizar_contaminacion, 5.2 limpiar_meteorologia, 5.3 limpiar_trafico,
\* 5.4 calcular_estadisticas, 5.5 correlacion_eventos, and whatever a module
\* comes to (import error, no main(), exception in main()) the later modules,
\* the validation of the outputs and the summary run: every run reaches its
\* end with five results, a validation and a summary.
C22_EveryModuleRunsInOrder ==
    /\ []EtlInOrder
    /\ <>(etl_pc = "exited" /\ Len(etl_results) = Len(ETL_MODULES))

\* A run has ended in which the first module could not be imported, the second
\* had no main(), the third raised in main() and the two last ones succeeded.
C22_Witness ==
    /\ etl_pc = "exited"
    /\ etl_results[1].error = "ImportError"
    /\ etl_results[2].error = "sin main()"
    /\ etl_results[3].estado = "failed"
    /\ etl_results[4].estado = "success"
    /\ etl_results[5].estado = "success"
    /\ etl_main_calls = <<"limpiar_trafico", "calcular_estadisticas", "correlacion_eventos">>
    /\ ~etl_summary.none

\* C23: the exit status is set only at the end of main, after the five modules
\* have run; it is 1 if and only if some module ended as failed or
\* import_error, and 0 when all succeeded, whatever the validation found.
C23_ExitStatusFromModules ==
    /\ etl_exit # None => (etl_pc = "exited" /\ Len(etl_results) = Len(ETL_MODULES))
    /\ etl_pc = "exited" =>
          /\ etl_exit \in {0, 1}
          /\ etl_exit = 1 <=>
                \E k \in 1..Len(etl_results) :
                    etl_results[k].estado \in {"failed", "import_error"}
          /\ (\A k \in 1..Len(etl_results) : etl_results[k].estado = "success")
                => etl_exit = 0

\* A run has ended with status 0, all modules having succeeded, although the
\* validation had a warning for every expected file.
C23_Witness ==
    /\ etl_pc = "exited"
    /\ etl_exit = 0
    /\ etl_validation.warnings = Len(EXPECTED_OUTPUTS)

\* ------------------------------------------------------ streaming_master.py
MAX_RETRIES == 3
RETRY_DELAYS == <<5, 10, 20>>

\* STREAMING_MODULES, in the order of the list (the display names are left out).
STREAMING_MODULES ==
    << [module |-> "streaming_aqicn", fase |-> "3.1"],
       [module |-> "streaming_openweather", fase |-> "3.2"],
       [module |-> "scraping_avamet", fase |-> "3.3"],
       [module |-> "streaming_dgt", fase |-> "3.4"] >>

\* A text that is searched is the sequence of its characters.
NETWORK_ERROR_KEYWORDS ==
    { <<"c", "o", "n", "n", "e", "c", "t", "i", "o", "n", "e", "r", "r", "o", "r">>,
      <<"t", "i", "m", "e", "o", "u", "t">>,
      <<"c", "o", "n", "n", "e", "c", "t", "i", "o", "n">>,
      <<"t", "i", "m", "e", "d", " ", "o", "u", "t">>,
      <<"t", "e", "m", "p", "o", "r", "a", "r", "y", " ", "f", "a", "i", "l", "u", "r", "e">>,
      <<"n", "a", "m", "e", " ", "r", "e", "s", "o", "l", "u", "t", "i", "o", "n">>,
      <<"u", "n", "r", "e", "a", "c", "h", "a", "b", "l", "e">>,
      <<"r", "e", "s", "e", "t", " ", "b", "y", " ", "p", "e", "e", "r">>,
      <<"b", "r", "o", "k", "e", "n", " ", "p", "i", "p", "e">>,
      <<"4", "2", "9">>,
      <<"5", "0", "3">>,
      <<"5", "0", "2">>,
      <<"5", "0", "4">> }

\* The names of the exception types that are network errors by themselves.
NetworkTypes ==
    { <<"c", "o", "n", "n", "e", "c", "t", "i", "o", "n", "e", "r", "r", "o", "r">>,
      <<"t", "i", "m", "e", "o", "u", "t">>,
      <<"r", "e", "a", "d", "t", "i", "m", "e", "o", "u", "t">>,
      <<"c", "o", "n", "n", "e", "c", "t", "t", "i", "m", "e", "o", "u", "t">> }

\* str.lower() on the letters A to Z.
UpperCase == <<"A", "B", "C", "D", "E", "F", "G", "H", "I", "J", "K", "L", "M", "N", "O", "P", "Q", "R", "S", "T", "U", "V", "W", "X", "Y", "Z">>
LowerCase == <<"a", "b", "c", "d", "e", "f", "g", "h", "i", "j", "k", "l", "m", "n", "o", "p", "q", "r", "s", "t", "u", "v", "w", "x", "y", "z">>
lower(text) ==
    [k \in 1..Len(text) |->
        IF \E n \in 1..Len(UpperCase) : UpperCase[n] = text[k]
        THEN LowerCase[CHOOSE n \in 1..Len(UpperCase) : UpperCase[n] = text[k]]
        ELSE text[k]]

\* keyword in text
Contains(keyword, text) ==
    \E k \in 1..(Len(text) - Len(keyword) + 1) :
        SubSeq(text, k, k + Len(keyword) - 1) = keyword

\* is_network_error(error), for an exception of a given type name and str().
is_network_error(error) ==
    LET error_str == lower(error.msg)
        error_type == lower(error.type)
    IN  \/ error_type \in NetworkTypes
        \/ \E keyword \in NETWORK_ERROR_KEYWORDS :
               Contains(keyword, error_str) \/ Contains(keyword, error_type)

\* What a call of module.main() comes to: it returns, or it raises an
\* Exception of some type with some message.
Returns == [ok |-> TRUE, type |-> <<>>, msg |-> <<>>]
Error(type, msg) == [ok |-> FALSE, type |-> type, msg |-> msg]
Errors ==
    { Error(<<"C", "o", "n", "n", "e", "c", "t", "i", "o", "n", "E", "r", "r", "o", "r">>,
            <<"r", "e", "f", "u", "s", "e", "d">>),
      Error(<<"R", "e", "a", "d", "T", "i", "m", "e", "o", "u", "t">>,
            <<>>),
      Error(<<"T", "i", "m", "e", "o", "u", "t", "E", "r", "r", "o", "r">>,
            <<>>),
      Error(<<"H", "T", "T", "P", "E", "r", "r", "o", "r">>,
            <<"5", "0", "3", " ", "S", "e", "r", "v", "i", "c", "e">>),
      Error(<<"R", "u", "n", "t", "i", "m", "e", "E", "r", "r", "o", "r">>,
            <<"T", "i", "m", "e", "d", " ", "O", "u", "t">>),
      Error(<<"V", "a", "l", "u", "e", "E", "r", "r", "o", "r">>,
            <<"i", "d", " ", "5", "0", "4", "2">>),
      Error(<<"K", "e", "y", "E", "r", "r", "o", "r">>,
            <<"'", "a", "q", "i", "'">>),
      Error(<<"V", "a", "l", "u", "e", "E", "r", "r", "o", "r">>,
            <<"b", "a", "d", " ", "J", "S", "O", "N">>),
      Error(<<"H", "T", "T", "P", "E", "r", "r", "o", "r">>,
            <<"4", "0", "4">>) }

\* A retry after any error while attempts are left.
RetryAlways(error, attempt) == attempt < MAX_RETRIES

\* if is_network_error(e) and attempt < MAX_RETRIES
ShouldRetry(error, attempt) == is_network_error(error) /\ attempt < MAX_RETRIES

\* The import of the module and the test hasattr(module, "main"): on a failure
\* run_module returns with estado "error_import", otherwise it enters the loop
\* for attempt in range(1, MAX_RETRIES + 1).
SmLoad ==
    /\ sm_pc = "import"
    /\ \E imported \in ImportOutcomes :
          IF imported = "ok"
          THEN /\ sm_pc' = "attempt"
               /\ sm_attempt' = 1
               /\ UNCHANGED sm_result
          ELSE /\ sm_result' = [sm_result EXCEPT !.estado = "error_import",
                                                 !.error = <<imported>>]
               /\ sm_pc' = "returned"
               /\ UNCHANGED sm_attempt
    /\ UNCHANGED <<pc, raised, normVars, dailyVars, loadVars, etlVars, impactVars,
                   sm_module_info, sm_calls, sm_waits>>

\* One pass of for attempt in range(1, MAX_RETRIES + 1): module.main() is
\* called; on its return the function returns "exitoso"; on an exception it
\* sleeps RETRY_DELAYS[attempt - 1] and goes on, or returns "fallido".
SmAttempt ==
    /\ sm_pc = "attempt"
    /\ sm_attempt <= MAX_RETRIES
    /\ \E e \in {Returns} \cup Errors :
          /\ sm_calls' = Append(sm_calls, e)
          /\ IF e.ok
             THEN /\ sm_result' = [sm_result EXCEPT !.intentos = sm_attempt,
                                                    !.estado = "exitoso"]
                  /\ sm_pc' = "returned"
                  /\ UNCHANGED <<sm_attempt, sm_waits>>
             ELSE IF ShouldRetry(e, sm_attempt)
             THEN /\ sm_result' = [sm_result EXCEPT !.intentos = sm_attempt]
                  /\ sm_waits' = Append(sm_waits, RETRY_DELAYS[sm_attempt])
                  /\ sm_attempt' = sm_attempt + 1
                  /\ UNCHANGED sm_pc
             ELSE /\ sm_result' = [sm_result EXCEPT !.intentos = sm_attempt,
                                                    !.estado = "fallido",
                                                    !.error = <<e.type, e.msg>>]
                  /\ sm_pc' = "returned"
                  /\ UNCHANGED <<sm_attempt, sm_waits>>
    /\ UNCHANGED <<pc, raised, normVars, dailyVars, loadVars, etlVars, impactVars,
                   sm_module_info>>

\* run_module is entered for one of the modules: result = {..., "estado":
\* "pendiente", "intentos": 0, "error": None}.
InitStream ==
    /\ pc = "streaming_master"
    /\ sm_pc = "import"
    /\ sm_module_info \in {STREAMING_MODULES[k] : k \in 1..Len(STREAMING_MODULES)}
    /\ sm_result = [modulo |-> sm_module_info.module, fase |-> sm_module_info.fase,
                    estado |-> "pendiente", intentos |-> 0, error |-> <<>>]
    /\ sm_attempt = 0
    /\ sm_calls = <<>>
    /\ sm_waits = <<>>
    /\ EtlIdle
    /\ eventos_raw = <<>>
    /\ NotLoaded
    /\ NotAggregated
    /\ NormLocals
    /\ ImpactStart

NextStream == SmLoad \/ SmAttempt

SpecStream == InitStream /\ [][NextStream]_vars

\* -------------------------------------------- claims on streaming_master.py
\* The last call of module.main() made, and the calls that raised an error
\* taken for a network error.
LastCall == sm_calls[Len(sm_calls)]
NetworkFailure(e) == ~e.ok /\ is_network_error(e)

\* C24: run_module calls main() at most MAX_RETRIES = 3 times; every call after
\* the first follows a failure classified as a network error; a success or a
\* non-network error ends the function at once, with exitoso and fallido; a
\* network error ends it with fallido at the third attempt only; intentos is the
\* number of calls made, 0 after a failed import; and the function never
\* returns with estado pendiente.
C24_RetriesOnlyOnNetworkErrors ==
    /\ Len(sm_calls) <= MAX_RETRIES
    /\ \A k \in 2..Len(sm_calls) : NetworkFailure(sm_calls[k - 1])
    /\ (sm_calls # <<>> /\ ~NetworkFailure(LastCall)) => sm_pc = "returned"
    /\ sm_pc = "returned" =>
          /\ sm_result.estado \in {"exitoso", "fallido", "error_import"}
          /\ sm_result.intentos = Len(sm_calls)
          /\ sm_result.estado = "error_import" <=> sm_calls = <<>>
          /\ sm_result.estado = "exitoso" <=> (sm_calls # <<>> /\ LastCall.ok)
          /\ sm_result.estado = "fallido" =>
                \/ ~is_network_error(LastCall)
                \/ Len(sm_calls) = MAX_RETRIES

\* The function has returned exitoso at its third attempt, after two errors,
\* one a network error by its type and one by its message only.
C24_Witness ==
    /\ sm_pc = "returned"
    /\ sm_result.estado = "exitoso"
    /\ sm_result.intentos = MAX_RETRIES
    /\ lower(sm_calls[1].type) \in NetworkTypes
    /\ lower(sm_calls[2].type) \notin NetworkTypes

\* C25 as stated: when every attempt of a module fails with a network error,
\* the waits of run_module are the entries of RETRY_DELAYS, 5 s, 10 s and 20 s.
C25_WaitsAreRetryDelays ==
    (/\ sm_pc = "returned"
     /\ Len(sm_calls) = MAX_RETRIES
     /\ \A k \in 1..Len(sm_calls) : NetworkFailure(sm_calls[k]))
        => sm_waits = RETRY_DELAYS
====
